---- MODULE Spec2Model ----
(***************************************************************************)
(* Recommendation generation engine and conversation-session coupling of   *)
(* SIRA (backend/app): the relational store (profiles, sessions, messages, *)
(* recommendations with their foreign keys), the conversation service, the *)
(* staged retrieval and the synchronous / streaming generation pipelines.  *)
(***************************************************************************)
EXTENDS Integers, Sequences, FiniteSets, TLC

(* ---------------------------------------------------------------------- *)
(* Bounds                                                                 *)
(* ---------------------------------------------------------------------- *)
MaxProfiles == 2      \* profiles ever created
MaxPipelineProfiles == 1  \* profiles ever created where generation is followed step by step
MaxSessions == 2      \* sessions ever created
MaxCalls == 2         \* generation calls ever started (each may be in flight)
MaxMsgs == 2          \* messages per session
MaxChunks == 2        \* fragments an upstream completion stream delivers
MaxRecs == 2          \* recommendation rows ever inserted
MaxFeedbackSessions == 1  \* sessions ever created where feedback is followed
MaxTextLen == 4       \* tokens of a completion given to the parser
MaxParsedRecs == 1    \* recommendation rows ever inserted where the parser is followed

None == -1            \* Python None / SQL NULL

Users == {"u1", "u2"}
ProfileIds == 1..MaxProfiles
SessionIds == 1..MaxSessions
Calls == 1..MaxCalls

(* ---------------------------------------------------------------------- *)
(* Profiles (models/profile.py)                                           *)
(* ---------------------------------------------------------------------- *)
\* The academic record and the preferences of a profile are optional rows;
\* has_academic_record / has_preferences say whether the row exists.
\* soft_skills says whether the preferences list any soft skill.
EmptyTemplate ==
    [has_academic_record |-> FALSE, gpa |-> None, language_preference |-> "",
     has_preferences |-> FALSE, budget_range_max |-> None,
     geographic_preference |-> "", soft_skills |-> FALSE]

FullTemplate ==
    [has_academic_record |-> TRUE, gpa |-> 15, language_preference |-> "French",
     has_preferences |-> TRUE, budget_range_max |-> 50000,
     geographic_preference |-> "Rabat", soft_skills |-> TRUE]

NoProfile ==
    [id |-> None, user_id |-> "", has_academic_record |-> FALSE, gpa |-> None,
     language_preference |-> "", has_preferences |-> FALSE,
     budget_range_max |-> None, geographic_preference |-> "",
     soft_skills |-> FALSE]

MakeProfile(id, u, t) ==
    [id |-> id, user_id |-> u,
     has_academic_record |-> t.has_academic_record, gpa |-> t.gpa,
     language_preference |-> t.language_preference,
     has_preferences |-> t.has_preferences,
     budget_range_max |-> t.budget_range_max,
     geographic_preference |-> t.geographic_preference,
     soft_skills |-> t.soft_skills]

\* Python truthiness of an optional number: None and 0 are falsy.
Truthy(n) == n # None /\ n # 0

AllowedLanguages == {"French", "English", "Arabic"}

\* query_service.build_metadata_filters: the filter map as a set of
\* (key, op, value) conditions, one per key.
build_metadata_filters(p) ==
    (IF p.has_academic_record /\ Truthy(p.gpa)
       THEN {[key |-> "min_gpa", op |-> "$lte", value |-> p.gpa]} ELSE {})
    \cup
    (IF p.has_preferences /\ Truthy(p.budget_range_max)
       THEN {[key |-> "tuition_fee_mad", op |-> "$lte", value |-> p.budget_range_max]}
       ELSE {})
    \cup
    (IF p.has_preferences /\ p.geographic_preference # ""
       THEN {[key |-> "location", op |-> "$eq", value |-> p.geographic_preference]}
       ELSE {})
    \cup
    (IF p.has_preferences /\ p.has_academic_record
          /\ p.language_preference \in AllowedLanguages
       THEN {[key |-> "language", op |-> "$eq", value |-> p.language_preference]}
       ELSE {})

\* query_service.profile_to_query: the text depends on the field of study,
\* the status, the favourite subjects and the career goals only; a profile
\* with none of them gives the default text.
profile_to_query(p) == <<"academic programs">>

\* query_service.enhance_query_with_context: the soft skills (and hobbies) of
\* the preferences are appended.
enhance_query_with_context(base_query, p) ==
    base_query \o (IF p.has_preferences /\ p.soft_skills THEN <<"skills">> ELSE <<>>)

\* filters if filters else None: an empty map is sent as None.
FilterArg(f) == [none |-> (f = {}), conds |-> f]
NoFilterArg == [none |-> TRUE, conds |-> {}]

(* ---------------------------------------------------------------------- *)
(* Search and completion collaborators                                    *)
(* ---------------------------------------------------------------------- *)
\* What PineconeManager.query returns: matches with id, score, metadata.
\* The two matches tie on score, so their order is the collaborator's.
MatchA == [id |-> "a", score |-> 9, metadata |-> "meta-a"]
MatchB == [id |-> "b", score |-> 9, metadata |-> "meta-b"]
SearchResults == { <<>>, <<MatchA, MatchB>>, <<MatchB, MatchA>> }

\* RetrievedProgram(...) built from one match: the match carries no
\* university / program_name / content keys, so the defaults are used.
ToRetrievedProgram(r, unknown_program) ==
    [university |-> "Unknown", program_name |-> unknown_program,
     score |-> r.score, metadata |-> r.metadata, content |-> ""]

ToRetrievedPrograms(results, unknown_program) ==
    [i \in 1..Len(results) |-> ToRetrievedProgram(results[i], unknown_program)]

\* Text is a sequence of tokens: "t" plain text, "FJ" the fence tagged json,
\* "F" the bare fence, "J" a well-formed JSON container, "x" malformed JSON,
\* "S" a well-formed JSON value that is not a container (null, 3, "a").
CompletionTexts == { <<"t">>, <<"t", "FJ", "J", "F">> }
UpstreamFragments == { <<>>, <<"t">> }

RECURSIVE Join(_)
\* "".join(list_of_fragments)
Join(frags) == IF frags = <<>> THEN <<>> ELSE Head(frags) \o Join(Tail(frags))

\* str.find(marker, start) over tokens; 0 when absent (-1 in Python).
\* The bare fence also occurs at the start of every tagged fence.
FindFrom(text, markers, start) ==
    LET hits == {i \in start..Len(text) : text[i] \in markers}
    IN IF hits = {} THEN 0 ELSE CHOOSE i \in hits : \A j \in hits : i <= j

EmptyDict == [parsed |-> FALSE, body |-> <<>>]

\* The strings json.loads accepts: one JSON value, container or not.
\* Anything else raises JSONDecodeError.
JsonDocuments == { <<"J">>, <<"S">> }

\* prompt_service.parse_json_from_response
parse_json_from_response(text) ==
    LET start_idx == FindFrom(text, {"FJ"}, 1)
        end_idx == FindFrom(text, {"F", "FJ"}, start_idx + 1)
        json_str == SubSeq(text, start_idx + 1, end_idx - 1)
    IN IF start_idx = 0 THEN EmptyDict
       ELSE IF end_idx = 0 THEN EmptyDict
       ELSE IF json_str \in JsonDocuments THEN [parsed |-> TRUE, body |-> json_str]
       ELSE EmptyDict

(* ---------------------------------------------------------------------- *)
(* State                                                                  *)
(* ---------------------------------------------------------------------- *)
VARIABLES
    profiles,        \* rows of table profiles
    sessions,        \* rows of table conversation_sessions
    messages,        \* rows of conversation_messages: session id -> ordered rows
    recs,            \* rows of table recommendations
    nextProfileId,   \* fresh primary keys (uuid4 never repeats)
    nextSessionId,
    nextRecId,
    calls,           \* generation calls in flight: call id -> position and locals
    last,            \* how the last completed request ended: "ok" or the error
    now,             \* the current instant (datetime.utcnow()), in hours
    listing,         \* the last SessionListResponse returned by get_user_sessions
    frames           \* the frames sent on the last event stream (text/event-stream)

vars == <<profiles, sessions, messages, recs, nextProfileId, nextSessionId,
          nextRecId, calls, last, now, listing, frames>>

store == <<profiles, sessions, messages, recs>>

ProfileRow(pid) == CHOOSE p \in profiles : p.id = pid
SessionRow(sid) == CHOOSE s \in sessions : s.id = sid
ProfileExists(pid) == \E p \in profiles : p.id = pid
SessionExists(sid) == \E s \in sessions : s.id = sid


(* ---------------------------------------------------------------------- *)
(* Calls (one record per generation request)                              *)
(* ---------------------------------------------------------------------- *)
IdleCall ==
    [op |-> "none", pc |-> "idle", profile_id |-> None, session_id |-> None,
     profile |-> NoProfile, searches |-> <<>>, raised |-> FALSE,
     programs |-> <<>>, strategy |-> "", upstream |-> 0, full_response |-> <<>>,
     yielded |-> <<>>, rec_id |-> None]

\* No session list has been returned yet.
NoListing == [user |-> "", sessions |-> <<>>, total |-> 0]

Init ==
    /\ profiles = {}
    /\ sessions = {}
    /\ messages = [s \in SessionIds |-> <<>>]
    /\ recs = {}
    /\ nextProfileId = 1
    /\ nextSessionId = 1
    /\ nextRecId = 1
    /\ calls = [c \in Calls |-> IdleCall]
    /\ last = "none"
    /\ now = 0
    /\ listing = NoListing
    /\ frames = <<>>

(* ---------------------------------------------------------------------- *)
(* Store: rows, constraints and foreign keys                              *)
(* ---------------------------------------------------------------------- *)
IssuedProfileIds == 1..(nextProfileId - 1)
IssuedSessionIds == 1..(nextSessionId - 1)

NoMetadata == [type |-> "", recommendation_id |-> None]

\* Attributes of a ConversationSession instance (columns and relationships).
SessionAttributes ==
    {"id", "user_id", "profile_id", "title", "status", "created_at",
     "updated_at", "last_message_at", "user", "profile", "messages",
     "recommendations"}

\* Parameters of conversation_repository.add_message.
AddMessageParams == {"db", "session_id", "role", "content", "message_metadata"}

\* Variant: the new row sorts before the rows already there.
add_message_newest_first(msgs, sid, role, content, message_metadata) ==
    [msgs EXCEPT ![sid] = <<[role |-> role, content |-> content,
                             message_metadata |-> message_metadata]>> \o @]

\* conversation_repository.add_message: one more row at the end of the
\* session's messages (created_at order).
add_message(msgs, sid, role, content, message_metadata) ==
    [msgs EXCEPT ![sid] = Append(@, [role |-> role, content |-> content,
                                      message_metadata |-> message_metadata])]

\* Variant: session_id may be NULL.
RecInsertableWithoutSession(pid, sid) ==
    /\ pid # None
    /\ ProfileExists(pid)
    /\ (sid = None \/ SessionExists(sid))

\* Variant: the references are not looked up.
RecInsertableWithoutLookup(pid, sid) ==
    /\ pid # None
    /\ sid # None

\* recommendations.profile_id / session_id are NOT NULL, and each is a
\* foreign key to an existing row (a NULL reference is not looked up).
\* The INSERT fails with IntegrityError otherwise.
RecInsertable(pid, sid) ==
    /\ pid # None
    /\ sid # None
    /\ (pid = None \/ ProfileExists(pid))
    /\ (sid = None \/ SessionExists(sid))

\* Variant: sessions are deleted with their profile.
SessionsDroppedWithProfile(pid) == {s \in sessions : s.profile_id # pid}

\* DELETE FROM profiles: conversation_sessions.profile_id is ON DELETE SET
\* NULL, recommendations.profile_id is ON DELETE CASCADE. (The foreign keys
\* are taken as declared; the rows of academic_records and
\* student_preferences are not part of the model.)
SessionsAfterProfileDelete(pid) ==
    {IF s.profile_id = pid THEN [s EXCEPT !.profile_id = None] ELSE s : s \in sessions}

RecsAfterProfileDelete(pid) == {r \in recs : r.profile_id # pid}

\* Variant: the recommendations of a deleted session stay.
RecsKeptAfterSessionDelete(sid) == recs

\* Deleting a session: messages and recommendations cascade.
RecsAfterSessionDelete(sid) == {r \in recs : r.session_id # sid}

MessagesAfterSessionDelete(sid) == [messages EXCEPT ![sid] = <<>>]

(* ---------------------------------------------------------------------- *)
(* Profile requests (api/routes/profiles.py, profile_repository)          *)
(* ---------------------------------------------------------------------- *)
CreateProfile(u, t) ==
    /\ nextProfileId <= MaxProfiles
    /\ profiles' = profiles \cup {MakeProfile(nextProfileId, u, t)}
    /\ nextProfileId' = nextProfileId + 1
    /\ last' = "ok"
    /\ UNCHANGED <<now, listing, frames, sessions, messages, recs, nextSessionId, nextRecId, calls>>

delete_profile(u, pid) ==
    /\ pid \in IssuedProfileIds
    /\ IF ~ProfileExists(pid)
         THEN /\ last' = "ProfileNotFound"
              /\ UNCHANGED store
       ELSE IF ProfileRow(pid).user_id # u
         THEN /\ last' = "ProfileNotOwned"
              /\ UNCHANGED store
       ELSE /\ profiles' = profiles \ {ProfileRow(pid)}
            /\ sessions' = SessionsAfterProfileDelete(pid)
            /\ recs' = RecsAfterProfileDelete(pid)
            /\ UNCHANGED messages
            /\ last' = "ok"
    /\ UNCHANGED <<now, listing, frames, nextProfileId, nextSessionId, nextRecId, calls>>

\* conversation_repository.add_message lines 116-121: the same commit sets
\* the session's last_message_at to the current instant.
touch_session(sid) ==
    {IF s.id = sid THEN [s EXCEPT !.last_message_at = now] ELSE s : s \in sessions}

(* ---------------------------------------------------------------------- *)
(* ConversationService (services/conversation_service.py)                 *)
(* ---------------------------------------------------------------------- *)
create_session(u, pid) ==
    /\ nextSessionId <= MaxSessions
    /\ pid \in IssuedProfileIds \cup {None}
    /\ IF pid # None /\ ~ProfileExists(pid)
         THEN /\ last' = "ProfileNotFound"
              /\ UNCHANGED <<sessions, nextSessionId>>
       ELSE IF pid # None /\ ProfileRow(pid).user_id # u
         THEN /\ last' = "ProfileNotOwned"
              /\ UNCHANGED <<sessions, nextSessionId>>
       ELSE /\ sessions' = sessions \cup
                 {[id |-> nextSessionId, user_id |-> u, profile_id |-> pid,
                   status |-> "active", created_at |-> now,
                   last_message_at |-> None]}
            /\ nextSessionId' = nextSessionId + 1
            /\ last' = "ok"
    /\ UNCHANGED <<now, listing, frames, profiles, messages, recs, nextProfileId, nextRecId, calls>>

\* Instants are counted in hours; one day (timedelta(days=1)).
Day == 24

\* Default of the limit argument of get_user_sessions and get_by_user.
DefaultLimit == 50

\* Descending order as PostgreSQL sorts it: NULL first, then later before
\* earlier.
SortsBefore(x, y) == x # y /\ (x = None \/ (y # None /\ x > y))

\* order_by(desc(last_message_at), desc(created_at)): row a has to come
\* before row b.
MustPrecede(a, b) ==
    \/ SortsBefore(a.last_message_at, b.last_message_at)
    \/ a.last_message_at = b.last_message_at /\ a.created_at > b.created_at

\* conversation_repository.get_by_user: the rows of the user, filtered by
\* profile and status when these are given, in the order of the query
\* (rows the sort keys do not separate come in any order), cut at limit.
get_by_user(u, pid, status, limit) ==
    LET rows == {s \in sessions : /\ s.user_id = u
                                  /\ (pid # None => s.profile_id = pid)
                                  /\ (status # "" => s.status = status)}
        n == Cardinality(rows)
        ordered == {q \in [1..n -> rows] :
                      \A i, j \in 1..n :
                         i < j => q[i] # q[j] /\ ~MustPrecede(q[j], q[i])}
    IN {SubSeq(q, 1, IF limit < n THEN limit ELSE n) : q \in ordered}

\* The dict get_user_sessions builds for one session (lines 125-133).
SessionItem(s) ==
    [id |-> s.id, profile_id |-> s.profile_id,
     last_message_at |-> s.last_message_at,
     message_count |-> Len(messages[s.id])]

\* dict.get: None for a key the dict does not have.
ItemGet(item, key) == IF key \in DOMAIN item THEN item[key] ELSE None

Periods == <<"Today", "Yesterday", "Last 7 days", "Last month">>

today_start(t) == t - (t % Day)
yesterday_start(t) == today_start(t) - 1 * Day
week_ago(t) == today_start(t) - 7 * Day
month_ago(t) == today_start(t) - 30 * Day

\* item.get("last_message_at") or item.get("created_at")
ItemTimestamp(item) ==
    IF ItemGet(item, "last_message_at") # None
      THEN ItemGet(item, "last_message_at")
    ELSE ItemGet(item, "created_at")

\* The if/elif chain of lines 234-247; "" when the item goes to no period.
PeriodOf(timestamp, t) ==
    IF timestamp = None THEN ""
    ELSE IF timestamp >= today_start(t) THEN "Today"
    ELSE IF timestamp >= yesterday_start(t) THEN "Yesterday"
    ELSE IF timestamp >= week_ago(t) THEN "Last 7 days"
    ELSE IF timestamp >= month_ago(t) THEN "Last month"
    ELSE ""

\* Variant: independent tests instead of the elif chain.
InPeriodOverlapping(item, period, t) ==
    /\ ItemTimestamp(item) # None
    /\ \/ period = "Today" /\ ItemTimestamp(item) >= today_start(t)
       \/ period = "Yesterday" /\ ItemTimestamp(item) >= yesterday_start(t)
       \/ period = "Last 7 days" /\ ItemTimestamp(item) >= week_ago(t)
       \/ period = "Last month" /\ ItemTimestamp(item) >= month_ago(t)

InPeriod(item, period, t) == PeriodOf(ItemTimestamp(item), t) = period

\* conversation_repository.group_sessions_by_period_with_items at instant t:
\* the non-empty periods in their fixed order, items in the order received.
group_sessions_by_period_with_items(session_items, t) ==
    LET grouped == [i \in 1..Len(Periods) |->
                      [period |-> Periods[i],
                       sessions |-> SelectSeq(session_items,
                                        LAMBDA item : InPeriod(item, Periods[i], t))]]
    IN SelectSeq(grouped, LAMBDA g : g.sessions # <<>>)

\* ConversationService.get_user_sessions (GET /sessions).
get_user_sessions(u, pid, status) ==
    /\ \E rows \in get_by_user(u, pid, status, DefaultLimit) :
          listing' = [user |-> u,
                      sessions |-> group_sessions_by_period_with_items(
                                       [i \in 1..Len(rows) |-> SessionItem(rows[i])], now),
                      total |-> Len(rows)]
    /\ last' = "ok"
    /\ UNCHANGED <<now, frames, store, nextProfileId, nextSessionId, nextRecId, calls>>

\* The instants at which requests arrive: two times of day 0, then midnight
\* of days 1, 7, 8, 30 and 31.
Instants == {0, 10, Day, 7 * Day, 8 * Day, 30 * Day, 31 * Day}

\* Time passes between two requests.
Advance(t) ==
    /\ t > now
    /\ now' = t
    /\ UNCHANGED <<listing, frames, store, nextProfileId, nextSessionId, nextRecId, calls, last>>

\* SessionUpdate.status is any string ("" stands for an absent field).
StatusInputs == {"", "active", "archived", "paused"}

\* Variant: the profile is attached without the ownership check.
update_session_any_profile(u, sid, status, pid) ==
    /\ sid \in IssuedSessionIds
    /\ status \in StatusInputs
    /\ pid \in IssuedProfileIds \cup {None}
    /\ IF ~SessionExists(sid)
         THEN /\ last' = "SessionNotFound"
              /\ UNCHANGED sessions
       ELSE IF SessionRow(sid).user_id # u
         THEN /\ last' = "SessionNotOwned"
              /\ UNCHANGED sessions
       ELSE IF pid # None /\ ~ProfileExists(pid)
         THEN /\ last' = "ProfileNotFound"
              /\ UNCHANGED sessions
       ELSE LET s == SessionRow(sid)
                s1 == IF status # "" THEN [s EXCEPT !.status = status] ELSE s
                s2 == IF pid # None THEN [s1 EXCEPT !.profile_id = pid] ELSE s1
            IN /\ sessions' = (sessions \ {s}) \cup {s2}
               /\ last' = "ok"
    /\ UNCHANGED <<now, listing, frames, profiles, messages, recs, nextProfileId, nextSessionId,
                   nextRecId, calls>>

update_session(u, sid, status, pid) ==
    /\ sid \in IssuedSessionIds
    /\ status \in StatusInputs
    /\ pid \in IssuedProfileIds \cup {None}
    /\ IF ~SessionExists(sid)
         THEN /\ last' = "SessionNotFound"
              /\ UNCHANGED sessions
       ELSE IF SessionRow(sid).user_id # u
         THEN /\ last' = "SessionNotOwned"
              /\ UNCHANGED sessions
       ELSE IF pid # None /\ ~ProfileExists(pid)
         THEN /\ last' = "ProfileNotFound"
              /\ UNCHANGED sessions
       ELSE IF pid # None /\ ProfileRow(pid).user_id # u
         THEN /\ last' = "ProfileNotOwned"
              /\ UNCHANGED sessions
       ELSE LET s == SessionRow(sid)
                s1 == IF status # "" THEN [s EXCEPT !.status = status] ELSE s
                s2 == IF pid # None THEN [s1 EXCEPT !.profile_id = pid] ELSE s1
            IN /\ sessions' = (sessions \ {s}) \cup {s2}
               /\ last' = "ok"
    /\ UNCHANGED <<now, listing, frames, profiles, messages, recs, nextProfileId, nextSessionId,
                   nextRecId, calls>>

delete_session(u, sid) ==
    /\ sid \in IssuedSessionIds
    /\ IF ~SessionExists(sid)
         THEN /\ last' = "SessionNotFound"
              /\ UNCHANGED store
       ELSE IF SessionRow(sid).user_id # u
         THEN /\ last' = "SessionNotOwned"
              /\ UNCHANGED store
       ELSE /\ sessions' = sessions \ {SessionRow(sid)}
            /\ messages' = MessagesAfterSessionDelete(sid)
            /\ recs' = RecsAfterSessionDelete(sid)
            /\ UNCHANGED profiles
            /\ last' = "ok"
    /\ UNCHANGED <<now, listing, frames, nextProfileId, nextSessionId, nextRecId, calls>>

\* session.recommendation (line 286) is read right after the user message
\* has been committed; the rest of the handler runs only if the instance
\* has that attribute.
ChatOutcomes == {[raised |-> TRUE, text |-> <<>>]} \cup
                {[raised |-> FALSE, text |-> t] : t \in CompletionTexts}

\* seq[-n:]
LastN(seq, n) == IF Len(seq) <= n THEN seq ELSE SubSeq(seq, Len(seq) - n + 1, Len(seq))

\* send_message asks for limit=10 rows.
RecentLimit == 10

\* conversation_repository.get_recent_messages: the newest limit rows of
\* the session, oldest first.
get_recent_messages(msgs, sid, limit) == LastN(msgs[sid], limit)

SystemPrompt == [role |-> "system", content |-> <<"system">>]

\* message_history[-10:]
HistoryWindow == 10

\* generate_response lines 120-133: the messages array handed to
\* client.chat.complete.
chat_messages(user_message, message_history) ==
    LET recent == LastN(message_history, HistoryWindow)
    IN <<SystemPrompt>>
         \o [i \in 1..Len(recent) |-> [role |-> recent[i].role, content |-> recent[i].content]]
         \o <<[role |-> "user", content |-> user_message]>>

\* send_message lines 276-295: the user message is added, then the recent
\* messages are read, then generate_response is given both.
send_message_request(msgs, sid, content) ==
    chat_messages(content,
                  get_recent_messages(add_message(msgs, sid, "user", content, NoMetadata),
                                      sid, RecentLimit))

\* Variant: the exchange discards the recommendations of the session.
send_message_dropping_recommendations(u, sid, content) ==
    /\ sid \in IssuedSessionIds
    /\ SessionExists(sid)
    /\ SessionRow(sid).user_id = u
    /\ Len(messages[sid]) + 2 <= MaxMsgs
    /\ messages' = add_message(messages, sid, "user", content, NoMetadata)
    /\ sessions' = touch_session(sid)
    /\ recs' = {r \in recs : r.session_id # sid}
    /\ last' = "AttributeError"
    /\ UNCHANGED <<now, listing, frames, profiles, nextProfileId, nextSessionId, nextRecId, calls>>

send_message(u, sid, content) ==
    /\ sid \in IssuedSessionIds
    /\ IF ~SessionExists(sid)
         THEN /\ last' = "SessionNotFound"
              /\ UNCHANGED <<sessions, messages>>
       ELSE IF SessionRow(sid).user_id # u
         THEN /\ last' = "SessionNotOwned"
              /\ UNCHANGED <<sessions, messages>>
       ELSE /\ Len(messages[sid]) + 2 <= MaxMsgs
            /\ sessions' = touch_session(sid)
            /\ LET withUser == add_message(messages, sid, "user", content, NoMetadata)
               IN IF "recommendation" \notin SessionAttributes
                    THEN /\ messages' = withUser
                         /\ last' = "AttributeError"
                  ELSE \E out \in ChatOutcomes :
                         \* build_system_prompt reads profile.profile_name
                         IF out.raised \/ SessionRow(sid).profile_id = None
                           THEN /\ messages' = withUser
                                /\ last' = "RuntimeError"
                         ELSE /\ messages' = add_message(withUser, sid, "assistant",
                                                         out.text, NoMetadata)
                              /\ last' = "ok"
    /\ UNCHANGED <<now, listing, frames, profiles, recs, nextProfileId, nextSessionId,
                   nextRecId, calls>>

(* ---------------------------------------------------------------------- *)
(* recommendation_repository.create                                       *)
(* ---------------------------------------------------------------------- *)


\* feedback_comment "" stands for NULL.
NewRecommendation(id, pid, sid, query, retrieved_context, ai_response, structured_data) ==
    [id |-> id, profile_id |-> pid, session_id |-> sid, query |-> query,
     retrieved_context |-> retrieved_context, ai_response |-> ai_response,
     structured_data |-> structured_data, feedback_rating |-> None,
     feedback_comment |-> ""]

\* create() has no session_id parameter: the row is built without one.
create(pid) ==
    /\ pid \in IssuedProfileIds
    /\ nextRecId <= MaxRecs
    /\ LET row == NewRecommendation(nextRecId, pid, None, <<"q">>, <<>>, <<"t">>, EmptyDict)
       IN IF RecInsertable(row.profile_id, row.session_id)
            THEN /\ recs' = recs \cup {row}
                 /\ nextRecId' = nextRecId + 1
                 /\ last' = "ok"
          ELSE /\ last' = "IntegrityError"
               /\ UNCHANGED <<recs, nextRecId>>
    /\ UNCHANGED <<now, listing, frames, profiles, sessions, messages, nextProfileId, nextSessionId, calls>>

\* RecommendationFeedback: feedback_rating is 1..5, feedback_comment is
\* optional.
FeedbackRatings == {1, 5}
FeedbackComments == {"", "c"}
RecIds == 1..MaxRecs

\* Variant: the feedback is written on every recommendation of the profile.
submit_feedback_to_profile(u, rid, rating, comment) ==
    /\ \E r \in recs : r.id = rid
    /\ LET rec == CHOOSE r \in recs : r.id = rid
       IN /\ recs' = {IF r.profile_id = rec.profile_id
                        THEN [r EXCEPT !.feedback_rating = rating,
                                       !.feedback_comment = comment]
                      ELSE r : r \in recs}
          /\ last' = "ok"
    /\ UNCHANGED <<now, listing, frames, profiles, sessions, messages, nextProfileId,
                   nextSessionId, nextRecId, calls>>

\* POST /recommendations/{recommendation_id}/feedback and
\* RecommendationService.submit_feedback.
submit_feedback(u, rid, rating, comment) ==
    /\ IF ~\E r \in recs : r.id = rid
         THEN /\ last' = "RecommendationNotFound"
              /\ UNCHANGED recs
       ELSE LET rec == CHOOSE r \in recs : r.id = rid
            IN IF ~ProfileExists(rec.profile_id) \/ ProfileRow(rec.profile_id).user_id # u
                 THEN /\ last' = "ProfileNotOwned"
                      /\ UNCHANGED recs
               ELSE /\ recs' = {IF r.id = rid
                                  THEN [r EXCEPT !.feedback_rating = rating,
                                                 !.feedback_comment = comment]
                                ELSE r : r \in recs}
                    /\ last' = "ok"
    /\ UNCHANGED <<now, listing, frames, profiles, sessions, messages, nextProfileId,
                   nextSessionId, nextRecId, calls>>

(* ---------------------------------------------------------------------- *)
(* rag_service.retrieve_with_fallback                                     *)
(* ---------------------------------------------------------------------- *)
SearchOutcome(raised, matches) == [raised |-> raised, matches |-> matches]

SearchCall(query_text, filters, out) ==
    [query_text |-> query_text, filters |-> filters, raised |-> out.raised,
     matches |-> out.matches]

\* What one retrieval leaves behind: the search calls made, in order; the
\* (programs, strategy) it returned unless a search call raised; and the
\* profile object, whose budget the relaxed tier overwrites and restores.
Retrieval(searches, raised, programs, strategy, profile) ==
    [searches |-> searches, raised |-> raised, programs |-> programs,
     strategy |-> strategy, profile |-> profile]

\* retrieve_relevant_programs: one search with the filters of the profile
\* as it is at the time of the call.
FilteredSearch(profile, out) ==
    SearchCall(enhance_query_with_context(profile_to_query(profile), profile),
               FilterArg(build_metadata_filters(profile)), out)

\* lines 104-121: the query alone, filters=None; whatever it returns is
\* the result.
SemanticOnly(profile, searches, outs) ==
    LET made == Append(searches, SearchCall(profile_to_query(profile), NoFilterArg, outs[3]))
    IN IF outs[3].raised
         THEN Retrieval(made, TRUE, <<>>, "", profile)
       ELSE Retrieval(made, FALSE, ToRetrievedPrograms(outs[3].matches, "Unknown"),
                      "semantic_only", profile)

\* Variant: the relaxed tier drops the location along with the budget.
RelaxedAllPreferences(profile, searches, outs) ==
    LET relaxed == [profile EXCEPT !.budget_range_max = None,
                                   !.geographic_preference = ""]
        made == Append(searches, FilteredSearch(relaxed, outs[2]))
    IN IF outs[2].raised
         THEN Retrieval(made, TRUE, <<>>, "", relaxed)
       ELSE IF outs[2].matches # <<>>
         THEN Retrieval(made, FALSE,
                        ToRetrievedPrograms(outs[2].matches, "Unknown Program"),
                        "relaxed_budget", profile)
       ELSE SemanticOnly(profile, made, outs)

\* lines 93-102: only for a profile with a budget; the budget is set to
\* None for the call and restored when the call has returned.
RelaxedBudget(profile, searches, outs) ==
    LET relaxed == [profile EXCEPT !.budget_range_max = None]
        made == Append(searches, FilteredSearch(relaxed, outs[2]))
    IN IF outs[2].raised
         THEN Retrieval(made, TRUE, <<>>, "", relaxed)
       ELSE IF outs[2].matches # <<>>
         THEN Retrieval(made, FALSE,
                        ToRetrievedPrograms(outs[2].matches, "Unknown Program"),
                        "relaxed_budget", profile)
       ELSE SemanticOnly(profile, made, outs)

\* Variant: no relaxed-budget tier between the full and the semantic one.
retrieve_without_relaxed_tier(profile, outs) ==
    LET made == <<FilteredSearch(profile, outs[1])>>
    IN IF outs[1].raised
         THEN Retrieval(made, TRUE, <<>>, "", profile)
       ELSE IF outs[1].matches # <<>>
         THEN Retrieval(made, FALSE,
                        ToRetrievedPrograms(outs[1].matches, "Unknown Program"),
                        "full_constraints", profile)
       ELSE SemanticOnly(profile, made, outs)

\* outs[i] is what the search collaborator answers if tier i is called.
retrieve_with_fallback(profile, outs) ==
    LET made == <<FilteredSearch(profile, outs[1])>>
    IN IF outs[1].raised
         THEN Retrieval(made, TRUE, <<>>, "", profile)
       ELSE IF outs[1].matches # <<>>
         THEN Retrieval(made, FALSE,
                        ToRetrievedPrograms(outs[1].matches, "Unknown Program"),
                        "full_constraints", profile)
       ELSE IF profile.has_preferences /\ Truthy(profile.budget_range_max)
         THEN RelaxedBudget(profile, made, outs)
       ELSE SemanticOnly(profile, made, outs)

(* ---------------------------------------------------------------------- *)
(* Generation calls: routes/recommendations.py, RecommendationService,    *)
(* ConversationService.generate_initial_recommendation                    *)
(* ---------------------------------------------------------------------- *)
FreeCall(c) ==
    /\ calls[c].pc = "idle"
    /\ \A d \in Calls : d < c => calls[d].pc # "idle"

SetCall(c, r) == calls' = [calls EXCEPT ![c] = r]

\* The call returns or raises: its locals are gone, the caller has res.
Finish(c, res) ==
    /\ calls' = [calls EXCEPT ![c] = IdleCall]
    /\ last' = res

\* POST /recommendations/generate and GET /recommendations/stream/...:
\* profile and session must exist and belong to the caller.
StartGeneration(c, op, u, pid, sid) ==
    /\ FreeCall(c)
    /\ op \in {"generate", "stream"}
    /\ pid \in IssuedProfileIds
    /\ sid \in IssuedSessionIds
    /\ IF ~ProfileExists(pid)
         THEN last' = "ProfileNotFound" /\ UNCHANGED calls
       ELSE IF ProfileRow(pid).user_id # u
         THEN last' = "ProfileNotOwned" /\ UNCHANGED calls
       ELSE IF ~SessionExists(sid)
         THEN last' = "SessionNotFound" /\ UNCHANGED calls
       ELSE IF SessionRow(sid).user_id # u
         THEN last' = "SessionNotOwned" /\ UNCHANGED calls
       ELSE /\ SetCall(c, [IdleCall EXCEPT !.op = op, !.pc = "load",
                                           !.profile_id = pid, !.session_id = sid])
            /\ UNCHANGED last
    /\ UNCHANGED <<now, listing, frames, store, nextProfileId, nextSessionId, nextRecId>>

\* Variant: no check that the session has a profile.
generate_initial_recommendation_unchecked(c, u, sid) ==
    /\ FreeCall(c)
    /\ sid \in IssuedSessionIds
    /\ IF ~SessionExists(sid)
         THEN /\ last' = "SessionNotFound"
              /\ UNCHANGED calls
       ELSE IF SessionRow(sid).user_id # u
         THEN /\ last' = "SessionNotOwned"
              /\ UNCHANGED calls
       ELSE /\ SetCall(c, [IdleCall EXCEPT !.op = "generate_initial_recommendation",
                                           !.pc = "load",
                                           !.profile_id = SessionRow(sid).profile_id,
                                           !.session_id = sid])
            /\ UNCHANGED last
    /\ UNCHANGED <<now, listing, frames, store, nextProfileId, nextSessionId, nextRecId>>

\* ConversationService.generate_initial_recommendation, lines 334-353.
generate_initial_recommendation(c, u, sid) ==
    /\ FreeCall(c)
    /\ sid \in IssuedSessionIds
    /\ IF ~SessionExists(sid)
         THEN /\ last' = "SessionNotFound"
              /\ UNCHANGED calls
       ELSE IF SessionRow(sid).user_id # u
         THEN /\ last' = "SessionNotOwned"
              /\ UNCHANGED calls
       ELSE IF SessionRow(sid).profile_id = None
         THEN /\ last' = "MissingProfile"
              /\ UNCHANGED calls
       ELSE /\ SetCall(c, [IdleCall EXCEPT !.op = "generate_initial_recommendation",
                                           !.pc = "load",
                                           !.profile_id = SessionRow(sid).profile_id,
                                           !.session_id = sid])
            /\ UNCHANGED last
    /\ UNCHANGED <<now, listing, frames, store, nextProfileId, nextSessionId, nextRecId>>

\* Steps 1-3 of generate_recommendation / stream_recommendation: load the
\* profile in its own transaction, build the query, retrieve.
Retrieve(c, outs) ==
    /\ calls[c].pc = "load"
    /\ IF ~ProfileExists(calls[c].profile_id)
         THEN Finish(c, "ProfileNotFound")
       ELSE LET got == retrieve_with_fallback(ProfileRow(calls[c].profile_id), outs)
            IN /\ SetCall(c, [calls[c] EXCEPT
                        !.profile = got.profile, !.searches = got.searches,
                        !.raised = got.raised, !.programs = got.programs,
                        !.strategy = got.strategy, !.pc = "retrieved"])
               /\ UNCHANGED last
    /\ UNCHANGED <<now, listing, frames, store, nextProfileId, nextSessionId, nextRecId>>

\* Variant: the call goes on to the completion with no program retrieved.
CheckProgramsLenient(c) ==
    /\ calls[c].pc = "retrieved"
    /\ IF calls[c].raised
         THEN Finish(c, "SearchError")
       ELSE /\ SetCall(c, [calls[c] EXCEPT
                   !.pc = IF calls[c].op = "stream" THEN "stream" ELSE "complete"])
            /\ UNCHANGED last
    /\ UNCHANGED <<now, listing, frames, store, nextProfileId, nextSessionId, nextRecId>>

\* Step 4: an exception of the search propagates; no program retrieved is
\* a ValueError; otherwise the call goes on to the completion.
CheckPrograms(c) ==
    /\ calls[c].pc = "retrieved"
    /\ IF calls[c].raised
         THEN Finish(c, "SearchError")
       ELSE IF calls[c].programs = <<>>
         THEN Finish(c, "NoCandidates")
       ELSE /\ SetCall(c, [calls[c] EXCEPT
                   !.pc = IF calls[c].op = "stream" THEN "stream" ELSE "complete"])
            /\ UNCHANGED last
    /\ UNCHANGED <<now, listing, frames, store, nextProfileId, nextSessionId, nextRecId>>

CompletionOutcome(raised, text) == [raised |-> raised, text |-> text]

\* Steps 6-7: parse the full text, build the row and INSERT it in its own
\* transaction (session_scope: commit, or rollback and re-raise).
NewRow(r, text) ==
    NewRecommendation(nextRecId, r.profile_id, r.session_id,
                      profile_to_query(r.profile), r.programs, text,
                      parse_json_from_response(text))

\* Variant: a text without structured data is not saved.
PersistRequiringData(c, text) ==
    IF RecInsertable(NewRow(calls[c], text).profile_id, NewRow(calls[c], text).session_id)
       /\ parse_json_from_response(text) # EmptyDict
      THEN /\ recs' = recs \cup {NewRow(calls[c], text)}
           /\ nextRecId' = nextRecId + 1
           /\ Finish(c, "ok")
    ELSE /\ Finish(c, "ValueError")
         /\ UNCHANGED <<recs, nextRecId>>

Persist(c, text) ==
    IF RecInsertable(NewRow(calls[c], text).profile_id, NewRow(calls[c], text).session_id)
      THEN /\ recs' = recs \cup {NewRow(calls[c], text)}
           /\ nextRecId' = nextRecId + 1
           /\ IF calls[c].op = "generate_initial_recommendation"
                THEN /\ SetCall(c, [calls[c] EXCEPT !.pc = "welcome", !.rec_id = nextRecId])
                     /\ UNCHANGED last
              ELSE Finish(c, "ok")
    ELSE /\ Finish(c, "IntegrityError")
         /\ UNCHANGED <<recs, nextRecId>>

\* Variant: a failed completion still leaves a row (with an empty answer).
CompleteSavingOnFailure(c, out) ==
    /\ calls[c].pc = "complete"
    /\ IF out.raised
         THEN /\ recs' = recs \cup {NewRow(calls[c], <<>>)}
              /\ nextRecId' = nextRecId + 1
              /\ Finish(c, "RuntimeError")
       ELSE Persist(c, out.text)
    /\ UNCHANGED <<now, listing, frames, profiles, sessions, messages, nextProfileId, nextSessionId>>

\* Variant: a call that finds a row of its profile and session returns
\* without writing another one.
CompleteDeduplicating(c, out) ==
    /\ calls[c].pc = "complete"
    /\ IF out.raised
         THEN /\ Finish(c, "RuntimeError")
              /\ UNCHANGED <<recs, nextRecId>>
       ELSE IF \E r \in recs : /\ r.profile_id = calls[c].profile_id
                               /\ r.session_id = calls[c].session_id
         THEN /\ Finish(c, "ok")
              /\ UNCHANGED <<recs, nextRecId>>
       ELSE Persist(c, out.text)
    /\ UNCHANGED <<now, listing, frames, profiles, sessions, messages, nextProfileId, nextSessionId>>

\* generate_recommendation steps 5-7: _call_llm, then the write.
Complete(c, out) ==
    /\ calls[c].pc = "complete"
    /\ IF out.raised
         THEN /\ Finish(c, "RuntimeError")
              /\ UNCHANGED <<recs, nextRecId>>
       ELSE Persist(c, out.text)
    /\ UNCHANGED <<now, listing, frames, profiles, sessions, messages, nextProfileId, nextSessionId>>

\* generate_initial_recommendation lines 357-389: the welcome message is
\* added with the keyword argument metadata=.
Welcome(c) ==
    /\ calls[c].pc = "welcome"
    /\ IF "metadata" \notin AddMessageParams
         THEN /\ Finish(c, "TypeError")
              /\ UNCHANGED <<sessions, messages>>
       ELSE IF ~SessionExists(calls[c].session_id)
         THEN /\ Finish(c, "IntegrityError")
              /\ UNCHANGED <<sessions, messages>>
       ELSE /\ sessions' = touch_session(calls[c].session_id)
            /\ messages' = add_message(messages, calls[c].session_id, "assistant",
                                       <<"welcome">>,
                                       [type |-> "recommendation_generated",
                                        recommendation_id |-> None])
            /\ Finish(c, "ok")
    /\ UNCHANGED <<now, listing, frames, profiles, recs, nextProfileId, nextSessionId, nextRecId>>

\* Variant: the first fragment is kept back and not handed to the caller.
StreamChunkHoldingFirst(c, f) ==
    /\ calls[c].pc = "stream"
    /\ calls[c].upstream < MaxChunks
    /\ IF f # <<>> /\ calls[c].upstream > 0
         THEN SetCall(c, [calls[c] EXCEPT !.upstream = @ + 1,
                                          !.full_response = Append(@, f),
                                          !.yielded = Append(@, f),
                                          !.pc = "yielded"])
       ELSE IF f # <<>>
         THEN SetCall(c, [calls[c] EXCEPT !.upstream = @ + 1,
                                          !.full_response = Append(@, f)])
       ELSE SetCall(c, [calls[c] EXCEPT !.upstream = @ + 1])
    /\ UNCHANGED <<now, listing, frames, store, nextProfileId, nextSessionId, nextRecId, last>>

\* stream_recommendation lines 219-223: one fragment arrives; a non-empty
\* one is accumulated and yielded, and the generator waits at the yield.
StreamChunk(c, f) ==
    /\ calls[c].pc = "stream"
    /\ calls[c].upstream < MaxChunks
    /\ IF f # <<>>
         THEN SetCall(c, [calls[c] EXCEPT !.upstream = @ + 1,
                                          !.full_response = Append(@, f),
                                          !.yielded = Append(@, f),
                                          !.pc = "yielded"])
       ELSE SetCall(c, [calls[c] EXCEPT !.upstream = @ + 1])
    /\ UNCHANGED <<now, listing, frames, store, nextProfileId, nextSessionId, nextRecId, last>>

\* lines 225-227: the upstream stream (or opening it) raises.
StreamRaise(c) ==
    /\ calls[c].pc = "stream"
    /\ Finish(c, "RuntimeError")
    /\ UNCHANGED <<now, listing, frames, store, nextProfileId, nextSessionId, nextRecId>>

\* lines 229-255: the upstream stream is exhausted; save the joined text.
StreamEnd(c) ==
    /\ calls[c].pc = "stream"
    /\ Persist(c, Join(calls[c].full_response))
    /\ UNCHANGED <<now, listing, frames, profiles, sessions, messages, nextProfileId, nextSessionId>>

\* The consumer asks for the next chunk.
StreamResume(c) ==
    /\ calls[c].pc = "yielded"
    /\ SetCall(c, [calls[c] EXCEPT !.pc = "stream"])
    /\ UNCHANGED <<now, listing, frames, store, nextProfileId, nextSessionId, nextRecId, last>>

\* Variant: closing the generator saves what was accumulated so far.
StreamCancelSavingPartial(c) ==
    /\ calls[c].pc = "yielded"
    /\ recs' = recs \cup {NewRow(calls[c], Join(calls[c].full_response))}
    /\ nextRecId' = nextRecId + 1
    /\ Finish(c, "cancelled")
    /\ UNCHANGED <<now, listing, frames, profiles, sessions, messages, nextProfileId, nextSessionId>>

\* The consumer stops iterating: the generator is closed at the yield
\* (GeneratorExit / CancelledError are not Exception subclasses).
StreamCancel(c) ==
    /\ calls[c].pc = "yielded"
    /\ Finish(c, "cancelled")
    /\ UNCHANGED <<now, listing, frames, store, nextProfileId, nextSessionId, nextRecId>>

(* ---------------------------------------------------------------------- *)
(* Event streams (api/routes/conversations.py)                            *)
(* ---------------------------------------------------------------------- *)
\* A frame is the text between "data: " and the blank line, as tokens.
DoneFrame == <<"[DONE]">>
ErrorFrame(msg) == <<"[ERROR]", msg>>

\* What a client reads off a frame.
IsDone(frame) == frame = DoneFrame
IsError(frame) == frame # <<>> /\ frame[1] = "[ERROR]"

\* Parameters of RecommendationService.stream_recommendation.
StreamRecommendationParams == {"self", "profile_id", "session_id", "top_k", "use_fallback"}

\* POST /sessions/{session_id}/recommend/stream: event_generator up to the
\* call of rec_service.stream_recommendation, which is made with the
\* keyword argument conversation_context=.
stream_recommendation_events(c, u, sid) ==
    /\ FreeCall(c)
    /\ sid \in IssuedSessionIds
    /\ IF ~SessionExists(sid)
         THEN /\ frames' = <<ErrorFrame("Session not found")>>
              /\ UNCHANGED calls
       ELSE IF SessionRow(sid).user_id # u
         THEN /\ frames' = <<ErrorFrame("Not authorized")>>
              /\ UNCHANGED calls
       ELSE IF SessionRow(sid).profile_id = None
         THEN /\ frames' = <<ErrorFrame("Session must have a profile")>>
              /\ UNCHANGED calls
       ELSE IF "conversation_context" \notin StreamRecommendationParams
         THEN /\ frames' = <<<<"Generating">>, ErrorFrame("TypeError")>>
              /\ UNCHANGED calls
       ELSE /\ frames' = <<<<"Generating">>>>
            /\ SetCall(c, [IdleCall EXCEPT !.op = "stream", !.pc = "load",
                                           !.profile_id = SessionRow(sid).profile_id,
                                           !.session_id = sid])
    /\ last' = "EventStream"
    /\ UNCHANGED <<now, listing, store, nextProfileId, nextSessionId, nextRecId>>

\* POST /sessions/{session_id}/stream, before the response starts: the
\* session is checked, the user message is added, the context is loaded.
stream_message(c, u, sid, content) ==
    /\ FreeCall(c)
    /\ sid \in IssuedSessionIds
    /\ IF ~SessionExists(sid)
         THEN /\ last' = "SessionNotFound"
              /\ UNCHANGED <<sessions, messages, calls, frames>>
       ELSE IF SessionRow(sid).user_id # u
         THEN /\ last' = "SessionNotOwned"
              /\ UNCHANGED <<sessions, messages, calls, frames>>
       ELSE /\ Len(messages[sid]) + 2 <= MaxMsgs
            /\ sessions' = touch_session(sid)
            /\ messages' = add_message(messages, sid, "user", content, NoMetadata)
            /\ SetCall(c, [IdleCall EXCEPT !.op = "stream_message", !.pc = "chat_open",
                                           !.profile_id = SessionRow(sid).profile_id,
                                           !.session_id = sid])
            /\ frames' = <<>>
            /\ last' = "EventStream"
    /\ UNCHANGED <<now, listing, profiles, recs, nextProfileId, nextSessionId, nextRecId>>

\* event_generator: the connection confirmation (an empty data frame), then
\* ai_service.stream_response is entered.
ChatOpen(c) ==
    /\ calls[c].pc = "chat_open"
    /\ frames' = Append(frames, <<>>)
    /\ SetCall(c, [calls[c] EXCEPT !.pc = "chat_stream"])
    /\ UNCHANGED <<now, listing, store, nextProfileId, nextSessionId, nextRecId, last>>

\* One text delta of the upstream stream, relayed as a data frame.
ChatChunk(c, f) ==
    /\ calls[c].pc = "chat_stream"
    /\ calls[c].profile_id # None
    /\ calls[c].upstream < MaxChunks
    /\ f # <<>>
    /\ frames' = Append(frames, f)
    /\ SetCall(c, [calls[c] EXCEPT !.upstream = @ + 1,
                                   !.full_response = @ \o f])
    /\ UNCHANGED <<now, listing, store, nextProfileId, nextSessionId, nextRecId, last>>

\* stream_response catches every exception (of build_system_prompt, which
\* reads profile.profile_name, and of the upstream stream) and yields the
\* text "[ERROR] ..." as one more chunk; then it ends like any other stream.
ChatUpstreamFail(c) ==
    /\ calls[c].pc = "chat_stream"
    /\ frames' = Append(frames, ErrorFrame("e"))
    /\ SetCall(c, [calls[c] EXCEPT !.raised = TRUE, !.pc = "chat_end",
                                   !.full_response = @ \o ErrorFrame("e")])
    /\ UNCHANGED <<now, listing, store, nextProfileId, nextSessionId, nextRecId, last>>

\* The upstream stream is exhausted.
ChatUpstreamEnd(c) ==
    /\ calls[c].pc = "chat_stream"
    /\ calls[c].profile_id # None
    /\ SetCall(c, [calls[c] EXCEPT !.pc = "chat_end"])
    /\ UNCHANGED <<now, listing, frames, store, nextProfileId, nextSessionId, nextRecId, last>>

\* After the loop: a non-empty full_response is saved as the assistant
\* message, then [DONE]; an exception of the save gives the [ERROR] frame of
\* the except branch.
ChatEnd(c) ==
    /\ calls[c].pc = "chat_end"
    /\ IF calls[c].full_response # <<>> /\ ~SessionExists(calls[c].session_id)
         THEN /\ frames' = Append(frames, ErrorFrame("An error occurred"))
              /\ UNCHANGED <<sessions, messages>>
       ELSE IF calls[c].full_response # <<>>
         THEN /\ sessions' = touch_session(calls[c].session_id)
              /\ messages' = add_message(messages, calls[c].session_id, "assistant",
                                         calls[c].full_response, NoMetadata)
              /\ frames' = Append(frames, DoneFrame)
       ELSE /\ frames' = Append(frames, DoneFrame)
            /\ UNCHANGED <<sessions, messages>>
    /\ calls' = [calls EXCEPT ![c] = IdleCall]
    /\ UNCHANGED <<now, listing, profiles, recs, nextProfileId, nextSessionId, nextRecId, last>>

(* ---------------------------------------------------------------------- *)
(* Specifications                                                         *)
(* ---------------------------------------------------------------------- *)
MessageContents == {<<"t">>}

\* One generation request at a time (other requests still interleave with it).
NoCallInFlight == \A c \in Calls : calls[c].pc = "idle"

SomeMatches == <<MatchA, MatchB>>

\* The collaborators' answers in Spec.
SearchAnswers ==
    { [i \in 1..3 |-> SearchOutcome(FALSE, SomeMatches)],
      [i \in 1..3 |-> SearchOutcome(FALSE, <<>>)],
      [i \in 1..3 |-> SearchOutcome(TRUE, <<>>)] }

CompletionAnswers ==
    { CompletionOutcome(TRUE, <<>>), CompletionOutcome(FALSE, <<"t", "FJ", "J", "F">>) }

\* A profile without academic record and preferences, and a complete one.
ProfileTemplates == {EmptyTemplate, FullTemplate}

\* Requests that are answered in one transaction.
StoreRequests ==
    \/ \E u \in Users, t \in ProfileTemplates :
          nextProfileId <= MaxPipelineProfiles /\ CreateProfile(u, t)
    \/ \E u \in Users, pid \in ProfileIds : delete_profile(u, pid)
    \/ \E u \in Users, pid \in ProfileIds \cup {None} : create_session(u, pid)
    \/ \E u \in Users, sid \in SessionIds, pid \in ProfileIds \cup {None} :
          update_session(u, sid, "", pid)
    \/ \E u \in Users, sid \in SessionIds : delete_session(u, sid)
    \/ \E u \in Users, sid \in SessionIds, m \in MessageContents : send_message(u, sid, m)
    \/ \E pid \in ProfileIds : create(pid)

\* Non-streaming generation, step by step.
GenerationSteps ==
    \/ \E c \in Calls, u \in Users, pid \in ProfileIds, sid \in SessionIds :
          NoCallInFlight /\ nextRecId <= MaxRecs /\ StartGeneration(c, "generate", u, pid, sid)
    \/ \E c \in Calls, u \in Users, sid \in SessionIds :
          NoCallInFlight /\ nextRecId <= MaxRecs /\ generate_initial_recommendation(c, u, sid)
    \/ \E c \in Calls, outs \in SearchAnswers : Retrieve(c, outs)
    \/ \E c \in Calls : CheckPrograms(c)
    \/ \E c \in Calls, out \in CompletionAnswers : Complete(c, out)
    \/ \E c \in Calls : Welcome(c)

Next == StoreRequests \/ GenerationSteps

Spec == Init /\ [][Next]_vars

\* Streaming generation: the owner's profiles and sessions, their deletion
\* while a stream is open, and the stream step by step.
StreamNext ==
    \/ \E u \in Users, t \in ProfileTemplates :
          nextProfileId <= MaxPipelineProfiles /\ CreateProfile(u, t)
    \/ \E u \in Users, pid \in ProfileIds : create_session(u, pid)
    \/ \E u \in Users, pid \in ProfileIds : delete_profile(u, pid)
    \/ \E u \in Users, sid \in SessionIds : delete_session(u, sid)
    \/ \E c \in Calls, u \in Users, pid \in ProfileIds, sid \in SessionIds :
          NoCallInFlight /\ nextRecId <= MaxRecs /\ StartGeneration(c, "stream", u, pid, sid)
    \/ \E c \in Calls, outs \in SearchAnswers : Retrieve(c, outs)
    \/ \E c \in Calls : CheckPrograms(c)
    \/ \E c \in Calls, f \in UpstreamFragments : StreamChunk(c, f)
    \/ \E c \in Calls : StreamRaise(c)
    \/ \E c \in Calls : StreamEnd(c)
    \/ \E c \in Calls : StreamResume(c)
    \/ \E c \in Calls : StreamCancel(c)

SpecStream == Init /\ [][StreamNext]_vars

\* Retrieval: profiles with and without constraints, and every answer the
\* search collaborator can give to each tier.
TierAnswers ==
    {SearchOutcome(TRUE, <<>>)} \cup {SearchOutcome(FALSE, r) : r \in SearchResults}

AllSearchAnswers == [1..3 -> TierAnswers]

RetrievalNext ==
    \/ \E u \in Users, t \in ProfileTemplates :
          nextProfileId <= MaxPipelineProfiles /\ CreateProfile(u, t)
    \/ \E u \in Users, pid \in ProfileIds : create_session(u, pid)
    \/ \E c \in Calls, u \in Users, pid \in ProfileIds, sid \in SessionIds :
          NoCallInFlight /\ nextRecId <= MaxRecs /\ StartGeneration(c, "generate", u, pid, sid)
    \/ \E c \in Calls, outs \in AllSearchAnswers : Retrieve(c, outs)
    \/ \E c \in Calls : CheckPrograms(c)
    \/ \E c \in Calls, out \in CompletionAnswers : Complete(c, out)

SpecRetrieval == Init /\ [][RetrievalNext]_vars

\* Sessions: two profiles and every status value a caller can send.
SessionNext ==
    \/ \E u \in Users : CreateProfile(u, FullTemplate)
    \/ \E u \in Users, pid \in ProfileIds : delete_profile(u, pid)
    \/ \E u \in Users, pid \in ProfileIds \cup {None} : create_session(u, pid)
    \/ \E u \in Users, sid \in SessionIds, status \in StatusInputs,
          pid \in ProfileIds \cup {None} : update_session(u, sid, status, pid)
    \/ \E u \in Users, sid \in SessionIds : delete_session(u, sid)
    \/ \E u \in Users, sid \in SessionIds, m \in MessageContents : send_message(u, sid, m)

SpecSessions == Init /\ [][SessionNext]_vars

\* Two generate_recommendation requests that arrive before either has
\* written its row, each with its own search results and completion.
ConcurrentSearchAnswers ==
    SearchAnswers \cup {[i \in 1..3 |-> SearchOutcome(FALSE, <<MatchB, MatchA>>)]}

ConcurrentCompletions == CompletionAnswers \cup {CompletionOutcome(FALSE, <<"t">>)}

ConcurrentNext ==
    \/ \E u \in Users : nextProfileId <= MaxPipelineProfiles /\ CreateProfile(u, FullTemplate)
    \/ \E u \in Users, pid \in ProfileIds : create_session(u, pid)
    \/ \E c \in Calls, u \in Users, pid \in ProfileIds, sid \in SessionIds :
          recs = {} /\ StartGeneration(c, "generate", u, pid, sid)
    \/ \E c \in Calls, outs \in ConcurrentSearchAnswers : Retrieve(c, outs)
    \/ \E c \in Calls : CheckPrograms(c)
    \/ \E c \in Calls, out \in ConcurrentCompletions : Complete(c, out)

SpecConcurrent == Init /\ [][ConcurrentNext]_vars

\* The two event-stream endpoints of a session.
EventsNext ==
    \/ \E u \in Users : nextProfileId <= MaxPipelineProfiles /\ CreateProfile(u, FullTemplate)
    \/ \E u \in Users, pid \in ProfileIds \cup {None} : create_session(u, pid)
    \/ \E u \in Users, sid \in SessionIds : delete_session(u, sid)
    \/ \E c \in Calls, u \in Users, sid \in SessionIds :
          NoCallInFlight /\ stream_recommendation_events(c, u, sid)
    \/ \E c \in Calls, u \in Users, sid \in SessionIds, m \in MessageContents :
          NoCallInFlight /\ stream_message(c, u, sid, m)
    \/ \E c \in Calls : ChatOpen(c)
    \/ \E c \in Calls, f \in UpstreamFragments : ChatChunk(c, f)
    \/ \E c \in Calls : ChatUpstreamFail(c)
    \/ \E c \in Calls : ChatUpstreamEnd(c)
    \/ \E c \in Calls : ChatEnd(c)

SpecEvents == Init /\ [][EventsNext]_vars

\* Completions with and without a usable json block: no block, a block whose
\* body does not parse, a block that is never closed, a good block.
ExtractionTexts ==
    { <<"t">>, <<"t", "FJ", "x", "F">>, <<"t", "FJ", "J">>, <<"t", "FJ", "J", "F">> }

ExtractionCompletions ==
    {CompletionOutcome(TRUE, <<>>)} \cup {CompletionOutcome(FALSE, t) : t \in ExtractionTexts}

\* The same kinds of text arriving in pieces.
ExtractionFragments == { <<>>, <<"t">>, <<"FJ", "x", "F">>, <<"FJ", "J">>, <<"F">> }

ExtractionNext ==
    \/ \E u \in Users : nextProfileId <= MaxPipelineProfiles /\ CreateProfile(u, FullTemplate)
    \/ \E u \in Users, pid \in ProfileIds : create_session(u, pid)
    \/ \E c \in Calls, op \in {"generate", "stream"}, u \in Users,
          pid \in ProfileIds, sid \in SessionIds :
          NoCallInFlight /\ nextRecId <= MaxRecs /\ StartGeneration(c, op, u, pid, sid)
    \/ \E c \in Calls, outs \in SearchAnswers : Retrieve(c, outs)
    \/ \E c \in Calls : CheckPrograms(c)
    \/ \E c \in Calls, out \in ExtractionCompletions : Complete(c, out)
    \/ \E c \in Calls, f \in ExtractionFragments : StreamChunk(c, f)
    \/ \E c \in Calls : StreamRaise(c)
    \/ \E c \in Calls : StreamEnd(c)
    \/ \E c \in Calls : StreamResume(c)

SpecExtraction == Init /\ [][ExtractionNext]_vars

\* Profiles with every combination of present and absent fields: the
\* academic record and the preferences may be missing, and each of their
\* columns is nullable (gpa >= 0.0 and budget_range_max >= 0 in the schemas).
FilterTemplates ==
    {t \in [has_academic_record : BOOLEAN, gpa : {None, 0, 15},
            language_preference : {"", "French", "Spanish"},
            has_preferences : BOOLEAN, budget_range_max : {None, 0, 50000},
            geographic_preference : {"", "Rabat"}, soft_skills : {FALSE}] :
        /\ ~t.has_academic_record => (t.gpa = None /\ t.language_preference = "")
        /\ ~t.has_preferences => (t.budget_range_max = None /\ t.geographic_preference = "")}

\* Retrieval for every kind of profile.
FiltersNext ==
    \/ \E u \in Users, t \in FilterTemplates :
          nextProfileId <= MaxPipelineProfiles /\ CreateProfile(u, t)
    \/ \E u \in Users, pid \in ProfileIds : create_session(u, pid)
    \/ \E c \in Calls, u \in Users, pid \in ProfileIds, sid \in SessionIds :
          NoCallInFlight /\ nextRecId <= MaxRecs /\ StartGeneration(c, "generate", u, pid, sid)
    \/ \E c \in Calls, outs \in SearchAnswers : Retrieve(c, outs)
    \/ \E c \in Calls : CheckPrograms(c)
    \/ \E c \in Calls, out \in CompletionAnswers : Complete(c, out)

SpecFilters == Init /\ [][FiltersNext]_vars

\* Profiles with and without a budget: nothing, everything, everything but
\* the budget, a budget of 0, preferences alone, an academic record alone.
TierTemplates ==
    { EmptyTemplate, FullTemplate,
      [FullTemplate EXCEPT !.budget_range_max = None],
      [FullTemplate EXCEPT !.budget_range_max = 0],
      [FullTemplate EXCEPT !.has_academic_record = FALSE, !.gpa = None,
                           !.language_preference = ""],
      [FullTemplate EXCEPT !.has_preferences = FALSE, !.budget_range_max = None,
                           !.geographic_preference = "", !.soft_skills = FALSE] }

\* Retrieval with every answer of the search collaborator at every tier, for
\* each of these profiles.
TiersNext ==
    \/ \E u \in Users, t \in TierTemplates :
          nextProfileId <= MaxPipelineProfiles /\ CreateProfile(u, t)
    \/ \E u \in Users, pid \in ProfileIds : create_session(u, pid)
    \/ \E c \in Calls, u \in Users, pid \in ProfileIds, sid \in SessionIds :
          NoCallInFlight /\ nextRecId <= MaxRecs /\ StartGeneration(c, "generate", u, pid, sid)
    \/ \E c \in Calls, outs \in AllSearchAnswers : Retrieve(c, outs)
    \/ \E c \in Calls : CheckPrograms(c)
    \/ \E c \in Calls, out \in CompletionAnswers : Complete(c, out)

SpecTiers == Init /\ [][TiersNext]_vars

\* Recommendations and what may touch them afterwards: sessions moved to
\* another profile, chat, further generations, feedback.
FeedbackNext ==
    \/ \E u \in Users : CreateProfile(u, FullTemplate)
    \/ \E u \in Users, pid \in ProfileIds :
          nextSessionId <= MaxFeedbackSessions /\ create_session(u, pid)
    \/ \E u \in Users, sid \in SessionIds, pid \in ProfileIds : update_session(u, sid, "", pid)
    \/ \E u \in Users, sid \in SessionIds, m \in MessageContents : send_message(u, sid, m)
    \/ \E c \in Calls, u \in Users, pid \in ProfileIds, sid \in SessionIds :
          NoCallInFlight /\ nextRecId <= MaxRecs /\ StartGeneration(c, "generate", u, pid, sid)
    \/ \E c \in Calls : Retrieve(c, [i \in 1..3 |-> SearchOutcome(FALSE, SomeMatches)])
    \/ \E c \in Calls : CheckPrograms(c)
    \/ \E c \in Calls, out \in CompletionAnswers : Complete(c, out)
    \/ \E u \in Users, rid \in RecIds, rating \in FeedbackRatings,
          comment \in FeedbackComments : submit_feedback(u, rid, rating, comment)

SpecFeedback == Init /\ [][FeedbackNext]_vars

\* The instants at which messages are written in SpecHistory.
HistoryInstants == {10, Day}

\* Every writer of conversation_messages, with time passing in between.
HistoryNext ==
    \/ \E u \in Users : nextProfileId <= MaxPipelineProfiles /\ CreateProfile(u, FullTemplate)
    \/ \E u \in Users, pid \in ProfileIds \cup {None} : create_session(u, pid)
    \/ \E u \in Users, sid \in SessionIds : update_session(u, sid, "archived", None)
    \/ \E u \in Users, sid \in SessionIds : delete_session(u, sid)
    \/ \E u \in Users, sid \in SessionIds, m \in MessageContents : send_message(u, sid, m)
    \/ \E c \in Calls, u \in Users, sid \in SessionIds, m \in MessageContents :
          NoCallInFlight /\ stream_message(c, u, sid, m)
    \/ \E c \in Calls : ChatOpen(c)
    \/ \E c \in Calls, f \in UpstreamFragments : ChatChunk(c, f)
    \/ \E c \in Calls : ChatUpstreamFail(c)
    \/ \E c \in Calls : ChatUpstreamEnd(c)
    \/ \E c \in Calls : ChatEnd(c)
    \/ \E t \in HistoryInstants : Advance(t)

SpecHistory == Init /\ [][HistoryNext]_vars

\* Every text of up to MaxTextLen tokens.
JsonTokens == {"t", "FJ", "F", "J", "S", "x"}

ParserTexts ==
    UNION {[1..n -> JsonTokens] : n \in 0..MaxTextLen}

\* One generation whose completion is any of these texts.
ParserNext ==
    \/ \E u \in Users : nextProfileId <= MaxPipelineProfiles /\ CreateProfile(u, FullTemplate)
    \/ \E u \in Users, pid \in ProfileIds :
          nextSessionId <= MaxFeedbackSessions /\ create_session(u, pid)
    \/ \E c \in Calls, u \in Users, pid \in ProfileIds, sid \in SessionIds :
          NoCallInFlight /\ nextRecId <= MaxParsedRecs
             /\ StartGeneration(c, "generate", u, pid, sid)
    \/ \E c \in Calls : Retrieve(c, [i \in 1..3 |-> SearchOutcome(FALSE, SomeMatches)])
    \/ \E c \in Calls : CheckPrograms(c)
    \/ \E c \in Calls, t \in ParserTexts : Complete(c, CompletionOutcome(FALSE, t))

SpecParser == Init /\ [][ParserNext]_vars

\* Sessions, their messages and the session list over a month.
ListingNext ==
    \/ \E u \in Users : create_session(u, None)
    \/ \E u \in Users, sid \in SessionIds, m \in MessageContents : send_message(u, sid, m)
    \/ \E t \in Instants : Advance(t)
    \/ \E u \in Users, status \in {"", "active"} : get_user_sessions(u, None, status)

SpecListing == Init /\ [][ListingNext]_vars

\* Both pipelines, streaming and not, next to each other.
PipelineNext ==
    \/ StreamNext
    \/ \E c \in Calls, u \in Users, pid \in ProfileIds, sid \in SessionIds :
          NoCallInFlight /\ nextRecId <= MaxRecs /\ StartGeneration(c, "generate", u, pid, sid)
    \/ \E c \in Calls, out \in CompletionAnswers : Complete(c, out)

SpecPipelines == Init /\ [][PipelineNext]_vars

\* Both pipelines and the streaming chat, with profiles and sessions deleted
\* at any point in between.
IntegrityNext ==
    \/ \E u \in Users : nextProfileId <= MaxPipelineProfiles /\ CreateProfile(u, FullTemplate)
    \/ \E u \in Users, pid \in ProfileIds : create_session(u, pid)
    \/ \E u \in Users, pid \in ProfileIds : delete_profile(u, pid)
    \/ \E u \in Users, sid \in SessionIds : delete_session(u, sid)
    \/ \E c \in Calls, op \in {"generate", "stream"}, u \in Users,
          pid \in ProfileIds, sid \in SessionIds :
          NoCallInFlight /\ nextRecId <= MaxRecs /\ StartGeneration(c, op, u, pid, sid)
    \/ \E c \in Calls : Retrieve(c, [i \in 1..3 |-> SearchOutcome(FALSE, SomeMatches)])
    \/ \E c \in Calls : CheckPrograms(c)
    \/ \E c \in Calls, out \in CompletionAnswers : Complete(c, out)
    \/ \E c \in Calls : StreamChunk(c, <<"t">>)
    \/ \E c \in Calls : StreamResume(c)
    \/ \E c \in Calls : StreamEnd(c)
    \/ \E c \in Calls, u \in Users, sid \in SessionIds, m \in MessageContents :
          NoCallInFlight /\ stream_message(c, u, sid, m)
    \/ \E c \in Calls : ChatOpen(c)
    \/ \E c \in Calls : ChatChunk(c, <<"t">>)
    \/ \E c \in Calls : ChatUpstreamEnd(c)
    \/ \E c \in Calls : ChatEnd(c)

SpecIntegrity == Init /\ [][IntegrityNext]_vars

(* ---------------------------------------------------------------------- *)
(* Properties                                                             *)
(* ---------------------------------------------------------------------- *)
NewRecs == recs' \ recs

\* The step with which call c returns or raises.
Returns(c, op) == calls[c].op = op /\ calls'[c].pc = "idle"

\* C1: stream_recommendation writes its Recommendation only in the step
\* that follows the natural end of the upstream stream, and the row holds
\* the concatenation of all fragments; a stream call that ends because the
\* upstream raised (RuntimeError) or because the consumer stopped iterating
\* (cancelled) leaves the recommendations as they were.
C1_StreamPersistsOnlyAtNaturalEnd ==
    [][\A c \in Calls :
         /\ (calls[c].op = "stream" /\ calls'[c] # calls[c] /\ NewRecs # {}
               => /\ calls[c].pc = "stream"
                  /\ Returns(c, "stream")
                  /\ last' = "ok"
                  /\ \E r \in NewRecs :
                        /\ NewRecs = {r}
                        /\ r.ai_response = Join(calls[c].full_response)
                        /\ r.ai_response = Join(calls[c].yielded))
         /\ (Returns(c, "stream") /\ last' \in {"RuntimeError", "cancelled"}
               => recs' = recs)
      ]_vars

\* A stream is cancelled after an earlier stream was saved: one row stays.
C1_Witness ==
    /\ last = "cancelled"
    /\ nextRecId = 2
    /\ \E r \in recs : r.ai_response = <<"t">>

\* C2: generate_recommendation is all-or-nothing: the call that returns
\* "ok" has inserted exactly one row, for its profile and session, holding
\* the completion text and what was parsed from it; every other step of the
\* call, and the call that ends with the completion failure (RuntimeError),
\* inserts and removes nothing.
C2_GenerateAllOrNothing ==
    [][\A c \in Calls :
         (calls'[c] # calls[c] /\ "generate" \in {calls[c].op, calls'[c].op})
           => IF Returns(c, "generate") /\ last' = "ok"
                THEN \E r \in NewRecs :
                       /\ recs' = recs \cup {r}
                       /\ r.profile_id = calls[c].profile_id
                       /\ r.session_id = calls[c].session_id
                       /\ r.ai_response # <<>>
                       /\ r.structured_data = parse_json_from_response(r.ai_response)
              ELSE recs' = recs
      ]_vars

\* A completion failed while an earlier recommendation exists.
C2_Witness ==
    /\ last = "RuntimeError"
    /\ nextRecId = 2
    /\ Cardinality(recs) = 1

\* The tiers a retrieval for profile p may go through, in order, and the
\* filters each tier sends to the search collaborator.
TierPlan(p) ==
    IF p.has_preferences /\ Truthy(p.budget_range_max)
      THEN <<"full_constraints", "relaxed_budget", "semantic_only">>
    ELSE <<"full_constraints", "semantic_only">>

TierFilters(p, tier) ==
    IF tier = "full_constraints" THEN FilterArg(build_metadata_filters(p))
    ELSE IF tier = "relaxed_budget"
      THEN FilterArg({f \in build_metadata_filters(p) : f.key # "tuition_fee_mad"})
    ELSE NoFilterArg

\* C3: the searches of one retrieval are those of the tiers full_constraints,
\* relaxed_budget, semantic_only in this order; every search but the last
\* returned no result; the retrieval stops at the first tier with results
\* and returns that tier's results, in the collaborator's order, with that
\* tier's name.
C3_TiersInOrderFirstNonEmptyWins ==
    \A c \in Calls :
      (calls[c].pc = "retrieved" /\ ProfileExists(calls[c].profile_id)) =>
        LET r == calls[c]
            tiers == TierPlan(ProfileRow(r.profile_id))
            n == Len(r.searches)
        IN /\ n \in 1..Len(tiers)
           /\ \A i \in 1..n :
                 r.searches[i].filters = TierFilters(ProfileRow(r.profile_id), tiers[i])
           /\ \A i \in 1..(n - 1) :
                 ~r.searches[i].raised /\ r.searches[i].matches = <<>>
           /\ r.raised = r.searches[n].raised
           /\ ~r.raised =>
                 /\ r.searches[n].matches = <<>> => n = Len(tiers)
                 /\ r.strategy = tiers[n]
                 /\ Len(r.programs) = Len(r.searches[n].matches)
                 /\ \A i \in 1..Len(r.programs) :
                       /\ r.programs[i].metadata = r.searches[n].matches[i].metadata
                       /\ r.programs[i].score = r.searches[n].matches[i].score

\* empty / empty / non-empty: the third tier's results, in its order.
C3_Witness ==
    \E c \in Calls :
      /\ calls[c].pc = "retrieved"
      /\ Len(calls[c].searches) = 3
      /\ calls[c].strategy = "semantic_only"
      /\ Len(calls[c].programs) = 2
      /\ calls[c].programs[1].metadata = MatchB.metadata

\* C4: every recommendation row has a profile_id and a session_id, and
\* recommendation_repository.create, which builds its row without a
\* session_id, fails with IntegrityError and leaves the table as it was.
C4_RecommendationHasProfileAndSession ==
    /\ [](\A r \in recs : r.profile_id # None /\ r.session_id # None)
    /\ [][\A pid \in ProfileIds :
            create(pid) => (last' = "IntegrityError" /\ recs' = recs)]_vars

\* An insert was refused while rows of both generation paths can exist.
C4_Witness ==
    /\ last = "IntegrityError"
    /\ recs # {}
    /\ profiles # {}

C6_SessionDeleteCascades ==
    [][\A u \in Users, sid \in SessionIds :
         delete_session(u, sid) =>
           IF SessionExists(sid) /\ SessionRow(sid).user_id = u
             THEN /\ last' = "ok"
                  /\ sessions' = {s \in sessions : s.id # sid}
                  /\ messages'[sid] = <<>>
                  /\ \A other \in SessionIds \ {sid} : messages'[other] = messages[other]
                  /\ recs' = {r \in recs : r.session_id # sid}
                  /\ profiles' = profiles
           ELSE /\ last' \in {"SessionNotFound", "SessionNotOwned"}
                /\ UNCHANGED store
      ]_vars

\* One of two sessions was deleted; the other keeps its message and its
\* recommendation.
C6_Witness ==
    /\ last = "ok"
    /\ nextSessionId = 3
    /\ nextRecId = 3
    /\ \E s \in sessions, r \in recs :
          /\ sessions = {s}
          /\ recs = {r}
          /\ r.session_id = s.id
          /\ messages[s.id] # <<>>

\* C7: generate_initial_recommendation by the owner of a session without a
\* profile ends at once with the missing-profile error: no generation call
\* is started (so nothing is searched or completed), and no row of any
\* table changes.
C7_InitialRecommendationNeedsProfile ==
    [][\A c \in Calls, u \in Users, sid \in SessionIds :
         (/\ generate_initial_recommendation(c, u, sid)
          /\ SessionExists(sid)
          /\ SessionRow(sid).user_id = u
          /\ SessionRow(sid).profile_id = None)
           => /\ last' = "MissingProfile"
              /\ UNCHANGED <<store, calls, nextRecId>>
      ]_vars

\* The error was raised for a session that has messages, next to a profile
\* that could be attached.
C7_Witness ==
    /\ last = "MissingProfile"
    /\ profiles # {}
    /\ \E s \in sessions : s.profile_id = None /\ messages[s.id] # <<>>

\* C8: send_message by the owner of a session without a profile either
\* ends "ok", having appended the user message and then one assistant
\* reply, or fails because the completion did (RuntimeError).
C8_ChatWithoutProfile ==
    [][\A u \in Users, sid \in SessionIds, m \in MessageContents :
         (/\ send_message(u, sid, m)
          /\ SessionExists(sid)
          /\ SessionRow(sid).user_id = u
          /\ SessionRow(sid).profile_id = None)
           => /\ last' \in {"ok", "RuntimeError"}
              /\ last' = "ok" =>
                    /\ Len(messages'[sid]) = Len(messages[sid]) + 2
                    /\ SubSeq(messages'[sid], 1, Len(messages[sid])) = messages[sid]
                    /\ messages'[sid][Len(messages[sid]) + 1].role = "user"
                    /\ messages'[sid][Len(messages[sid]) + 1].content = m
                    /\ messages'[sid][Len(messages[sid]) + 2].role = "assistant"
      ]_vars

\* C9: the generate_initial_recommendation call that has inserted a
\* recommendation returns "ok" having appended exactly one assistant
\* message whose metadata holds the id of that recommendation.
C9_RecommendationLinkedByMessage ==
    [][\A c \in Calls :
         (/\ Returns(c, "generate_initial_recommendation")
          /\ calls[c].rec_id # None
          /\ \E r \in recs' : r.id = calls[c].rec_id)
           => LET sid == calls[c].session_id
                  n == Len(messages[sid])
              IN /\ last' = "ok"
                 /\ Len(messages'[sid]) = n + 1
                 /\ SubSeq(messages'[sid], 1, n) = messages[sid]
                 /\ messages'[sid][n + 1].role = "assistant"
                 /\ messages'[sid][n + 1].message_metadata.recommendation_id
                      = calls[c].rec_id
      ]_vars

\* C10: whatever its outcome, send_message leaves the recommendations as
\* they are, inserts none, and starts or advances no retrieval.
C10_ChatLeavesRecommendations ==
    [][\A u \in Users, sid \in SessionIds, m \in MessageContents :
         send_message(u, sid, m)
           => /\ recs' = recs
              /\ nextRecId' = nextRecId
              /\ calls' = calls
      ]_vars

\* A message was sent in a session that has a recommendation.
C10_Witness ==
    /\ last = "AttributeError"
    /\ \E s \in sessions, r \in recs :
          r.session_id = s.id /\ messages[s.id] # <<>>

\* C11: a session is created with status "active"; in every state the
\* status of every session is "active" or "archived"; and a status changes
\* only in an update_session that sends the new status.
C11_StatusActiveOrArchived ==
    /\ [](\A s \in sessions : s.status \in {"active", "archived"})
    /\ [][/\ \A t \in sessions' :
               (\A s \in sessions : s.id # t.id) => t.status = "active"
          /\ \A s \in sessions, t \in sessions' :
               (s.id = t.id /\ s.status # t.status)
                 => \E u \in Users, pid \in ProfileIds \cup {None} :
                      update_session(u, s.id, t.status, pid)
         ]_vars

\* The profile pid sent by user u is one the store has and u owns.
Attachable(u, pid) == ProfileExists(pid) /\ ProfileRow(pid).user_id = u

\* C12: the profile of a session is NULL or an existing profile of the
\* session's owner. create_session and update_session with a profile id
\* that is missing or not the caller's fail and change no row (no session,
\* no status, no profile_id); update_session by the owner with a profile
\* of theirs attaches it, whatever was attached before.
C12_SessionProfileBelongsToOwner ==
    /\ [](\A s \in sessions :
            s.profile_id = None
            \/ \E q \in profiles : q.id = s.profile_id /\ q.user_id = s.user_id)
    /\ [][\A u \in Users, pid \in ProfileIds :
            /\ (create_session(u, pid) /\ ~Attachable(u, pid))
                 => /\ last' \in {"ProfileNotFound", "ProfileNotOwned"}
                    /\ UNCHANGED <<store, nextSessionId>>
            /\ \A sid \in SessionIds, status \in StatusInputs :
                 (/\ update_session(u, sid, status, pid)
                  /\ SessionExists(sid)
                  /\ SessionRow(sid).user_id = u)
                   => IF Attachable(u, pid)
                        THEN /\ last' = "ok"
                             /\ \E t \in sessions' : t.id = sid /\ t.profile_id = pid
                      ELSE /\ last' \in {"ProfileNotFound", "ProfileNotOwned"}
                           /\ UNCHANGED store
         ]_vars

\* Two profiles of different users; a session is attached to the second
\* one, its owner's, and an attachment has just been refused.
C12_Witness ==
    /\ last = "ProfileNotOwned"
    /\ Cardinality(profiles) = 2
    /\ \E s \in sessions, q \in profiles :
          s.profile_id = 2 /\ q.user_id # s.user_id

\* C13: a generate_recommendation or stream_recommendation call whose
\* profile is gone when it is loaded ends with ProfileNotFound without
\* having searched; one whose tiers all returned nothing ends with
\* NoCandidates without starting the completion; neither inserts a
\* recommendation nor has yielded a chunk.
C13_FailFast ==
    [][\A c \in Calls :
         (calls[c].op \in {"generate", "stream"} /\ calls'[c] # calls[c]) =>
           /\ (calls[c].pc = "load" /\ ~ProfileExists(calls[c].profile_id))
                => (calls'[c] = IdleCall /\ last' = "ProfileNotFound")
           /\ (/\ calls[c].pc = "retrieved"
               /\ ~calls[c].raised
               /\ \A i \in 1..Len(calls[c].searches) :
                     calls[c].searches[i].matches = <<>>)
                => (calls'[c] = IdleCall /\ last' = "NoCandidates")
           /\ (calls'[c] = IdleCall /\ last' \in {"ProfileNotFound", "NoCandidates"})
                => /\ recs' = recs
                   /\ calls[c].upstream = 0
                   /\ calls[c].yielded = <<>>
                   /\ calls[c].pc \in {"load", "retrieved"}
                   /\ last' = "ProfileNotFound" => calls[c].searches = <<>>
      ]_vars

\* A call found no candidate while an earlier recommendation exists.
C13_Witness ==
    /\ last = "NoCandidates"
    /\ nextRecId = 2
    /\ Cardinality(recs) = 1

(* ---------------------------------------------------------------------- *)
(* C14, C15: the session list                                             *)
(* ---------------------------------------------------------------------- *)
\* The places (group, position) of a response at which session sid is listed.
PlacesOf(l, sid) ==
    {<<i, k>> \in (1..Len(l.sessions)) \X (1..MaxSessions) :
        k <= Len(l.sessions[i].sessions) /\ l.sessions[i].sessions[k].id = sid}

PeriodsOf(l, sid) == {l.sessions[p[1]].period : p \in PlacesOf(l, sid)}

\* The bucket the cutoffs of instant t give a timestamp: today 00:00, one
\* day, seven days and thirty days before it.
BucketsFor(timestamp, t) ==
    LET midnight == t - (t % 24)
    IN IF timestamp >= midnight THEN {"Today"}
       ELSE IF timestamp >= midnight - 24 THEN {"Yesterday"}
       ELSE IF timestamp >= midnight - 7 * 24 THEN {"Last 7 days"}
       ELSE IF timestamp >= midnight - 30 * 24 THEN {"Last month"}
       ELSE {}

ListRequests == Users \X {"", "active"}

Selected(s, u, status) == s.user_id = u /\ (status = "" \/ s.status = status)

\* C14: in the response of get_user_sessions every session is listed at most
\* once, under one of the four periods; a session with a last-message
\* timestamp is listed under the period its timestamp falls in by the
\* cutoffs of the current instant, and under none when it is older than the
\* last cutoff (so a session last active yesterday at 10:00 is under
\* Yesterday only).
C14_OneBucketByCutoffs ==
    [][\A rq \in ListRequests :
         get_user_sessions(rq[1], None, rq[2]) =>
           \A s \in sessions :
              /\ Cardinality(PlacesOf(listing', s.id)) <= 1
              /\ PeriodsOf(listing', s.id) \subseteq
                    {"Today", "Yesterday", "Last 7 days", "Last month"}
              /\ (Selected(s, rq[1], rq[2]) /\ s.last_message_at # None) =>
                    PeriodsOf(listing', s.id) = BucketsFor(s.last_message_at, now)]_vars

\* A list returned on day 1 shows a session last active on day 0 at 10:00
\* under Yesterday only.
C14_Witness ==
    /\ listing.user # ""
    /\ now = 24
    /\ \E s \in sessions :
          /\ s.user_id = listing.user
          /\ s.last_message_at = 10
          /\ PeriodsOf(listing, s.id) = {"Yesterday"}

\* C15: a session without messages is listed by its creation timestamp; one
\* created today is under Today in its owner's list.
C15_NoMessagesBucketedByCreation ==
    [][\A rq \in ListRequests :
         get_user_sessions(rq[1], None, rq[2]) =>
           \A s \in sessions :
              (Selected(s, rq[1], rq[2]) /\ s.last_message_at = None) =>
                 PeriodsOf(listing', s.id) = BucketsFor(s.created_at, now)]_vars

(* ---------------------------------------------------------------------- *)
(* C16: concurrent generation                                             *)
(* ---------------------------------------------------------------------- *)
\* C16: concurrent generate_recommendation calls for one profile and session
\* are neither deduplicated nor serialised: whatever the other call is doing
\* or has already written, a call whose retrieval and completion succeeded
\* returns normally and adds one more row, under a fresh id, built from its
\* own programs and its own completion text; the rows already there and the
\* other call stay as they are.
C16_ConcurrentCallsBothPersist ==
    [][\A c \in Calls, out \in ConcurrentCompletions :
         (Complete(c, out) /\ calls[c].op = "generate" /\ ~out.raised) =>
            /\ last' = "ok"
            /\ calls'[c].pc = "idle"
            /\ \A d \in Calls \ {c} : calls'[d] = calls[d]
            /\ \A r \in recs : r.id # nextRecId
            /\ recs' = recs \cup
                  {[id |-> nextRecId, profile_id |-> calls[c].profile_id,
                    session_id |-> calls[c].session_id,
                    retrieved_context |-> calls[c].programs,
                    ai_response |-> out.text,
                    structured_data |-> parse_json_from_response(out.text),
                    query |-> <<"academic programs">>,
                    feedback_rating |-> None, feedback_comment |-> ""]}]_vars

\* Both calls are back and the session has two rows, with different programs
\* and different answers.
C16_Witness ==
    /\ NoCallInFlight
    /\ \E r1, r2 \in recs :
          /\ r1.id # r2.id
          /\ r1.profile_id = r2.profile_id
          /\ r1.session_id = r2.session_id
          /\ r1.retrieved_context # r2.retrieved_context
          /\ r1.ai_response # r2.ai_response

(* ---------------------------------------------------------------------- *)
(* C17: POST /sessions/{session_id}/recommend                             *)
(* ---------------------------------------------------------------------- *)
HasRecommendation(sid) == \E r \in recs : r.session_id = sid

\* C17: generate_initial_recommendation on a session that already has a
\* recommendation is rejected, and no step of such a call adds a
\* recommendation or a message to that session.
C17_RecommendOncePerSession ==
    [][/\ \A c \in Calls, u \in Users, sid \in SessionIds :
            (generate_initial_recommendation(c, u, sid) /\ HasRecommendation(sid)) =>
               /\ calls'[c].pc = "idle"
               /\ last' # "ok"
               /\ UNCHANGED store
       /\ \A c \in Calls :
            (/\ calls[c].op = "generate_initial_recommendation"
             /\ HasRecommendation(calls[c].session_id)
             /\ calls[c].rec_id = None) =>
               /\ {r \in recs' : r.session_id = calls[c].session_id} \subseteq recs
               /\ messages'[calls[c].session_id] = messages[calls[c].session_id]]_vars

(* ---------------------------------------------------------------------- *)
(* C18: event streams                                                     *)
(* ---------------------------------------------------------------------- *)
EventStreamOpen == \E c \in Calls : calls[c].pc \in {"chat_open", "chat_stream", "chat_end"}

\* C18: on an event stream no frame follows a [DONE] or an [ERROR] frame; a
\* stream that has ended ends with one of them; and the stream of a chat
\* whose upstream completion failed ends with the [ERROR] frame.
C18_OneTerminalFrame ==
    /\ [](\A i \in 1..Len(frames) :
             (IsDone(frames[i]) \/ IsError(frames[i])) => i = Len(frames))
    /\ []((~EventStreamOpen /\ frames # <<>>) =>
             (IsDone(frames[Len(frames)]) \/ IsError(frames[Len(frames)])))
    /\ [][\A c \in Calls :
            (ChatEnd(c) /\ calls[c].raised) => IsError(frames'[Len(frames')])]_vars

(* ---------------------------------------------------------------------- *)
(* C19: extraction failure                                                *)
(* ---------------------------------------------------------------------- *)
\* The text holds a first fenced block tagged json that is closed and whose
\* body is well-formed JSON.
HasUsableBlock(text) ==
    \E i \in 1..Len(text) :
       /\ text[i] = "FJ"
       /\ \A k \in 1..(i - 1) : text[k] # "FJ"
       /\ i + 2 <= Len(text)
       /\ text[i + 1] = "J"
       /\ text[i + 2] \in {"F", "FJ"}

\* The row a call saves for a text from which nothing could be extracted.
DegradedRow(c, text) ==
    [id |-> nextRecId, profile_id |-> calls[c].profile_id,
     session_id |-> calls[c].session_id, retrieved_context |-> calls[c].programs,
     ai_response |-> text, structured_data |-> EmptyDict,
     query |-> <<"academic programs">>, feedback_rating |-> None,
     feedback_comment |-> ""]

Saveable(c) == ProfileExists(calls[c].profile_id) /\ SessionExists(calls[c].session_id)

\* C19: when the completion text has no json block, or the block is not
\* closed or does not parse, generate_recommendation and
\* stream_recommendation still return normally and save exactly one row,
\* whose ai_response is the whole text and whose structured_data is empty.
C19_ExtractionFailureIsNotFatal ==
    [][/\ \A c \in Calls, out \in ExtractionCompletions :
            (Complete(c, out) /\ ~out.raised /\ ~HasUsableBlock(out.text) /\ Saveable(c)) =>
               /\ recs' = recs \cup {DegradedRow(c, out.text)}
               /\ DegradedRow(c, out.text) \notin recs
               /\ last' = "ok"
       /\ \A c \in Calls :
            (StreamEnd(c) /\ ~HasUsableBlock(Join(calls[c].full_response)) /\ Saveable(c)) =>
               /\ recs' = recs \cup {DegradedRow(c, Join(calls[c].full_response))}
               /\ DegradedRow(c, Join(calls[c].full_response)) \notin recs
               /\ last' = "ok"]_vars

\* Both kinds of failure have been saved: a block whose body does not parse
\* and a block that is never closed.
C19_Witness ==
    /\ last = "ok"
    /\ NoCallInFlight
    /\ \E r1, r2 \in recs :
          /\ r1.structured_data = EmptyDict
          /\ r2.structured_data = EmptyDict
          /\ r1.ai_response = <<"t", "FJ", "x", "F">>
          /\ r2.ai_response = <<"FJ", "J">>

(* ---------------------------------------------------------------------- *)
(* C20: metadata filters                                                  *)
(* ---------------------------------------------------------------------- *)
\* The keys the filter map has when each is decided by its own field.
KeysByField(p) ==
    (IF p.has_academic_record /\ p.gpa # None THEN {"min_gpa"} ELSE {})
    \cup (IF p.has_preferences /\ p.budget_range_max # None
            THEN {"tuition_fee_mad"} ELSE {})
    \cup (IF p.has_preferences /\ p.geographic_preference # ""
            THEN {"location"} ELSE {})
    \cup (IF p.has_academic_record
             /\ p.language_preference \in {"French", "English", "Arabic"}
            THEN {"language"} ELSE {})

\* C20: the filter map the first search of a retrieval is given has a GPA
\* constraint iff the academic record has a GPA, a tuition constraint iff
\* budget max is set, a location constraint iff a geographic preference is
\* set, a language constraint iff the academic record's language is French,
\* English or Arabic, each whatever the other fields and records are; and
\* the map is empty for a profile with no data.
C20_FiltersFieldByField ==
    [][\A c \in Calls, outs \in SearchAnswers :
         (Retrieve(c, outs) /\ ProfileExists(calls[c].profile_id)) =>
            LET p == ProfileRow(calls[c].profile_id)
                sent == calls'[c].searches[1].filters
            IN /\ {f.key : f \in sent.conds} = KeysByField(p)
               /\ sent.none = (KeysByField(p) = {})]_vars

(* ---------------------------------------------------------------------- *)
(* C21: the relaxed_budget tier                                           *)
(* ---------------------------------------------------------------------- *)
HasTuition(filters) == \E f \in filters.conds : f.key = "tuition_fee_mad"

\* C21: after a first search that returned nothing, the relaxed_budget
\* search is made iff the first search had a tuition constraint; it sends
\* the query text of the first search and the first map without the tuition
\* constraint only; with no tuition constraint the next search is the
\* semantic one, and there are at most two searches.
C21_RelaxedBudgetTier ==
    [][\A c \in Calls, outs \in AllSearchAnswers :
         (Retrieve(c, outs) /\ ProfileExists(calls[c].profile_id)) =>
            LET r == calls'[c]
                s == r.searches
                goes_on == ~s[1].raised /\ s[1].matches = <<>>
            IN /\ Len(s) >= 1
               /\ ~goes_on => Len(s) = 1
               /\ (goes_on /\ HasTuition(s[1].filters)) =>
                     /\ Len(s) >= 2
                     /\ s[2].query_text = s[1].query_text
                     /\ s[2].filters.conds =
                           {f \in s[1].filters.conds : f.key # "tuition_fee_mad"}
                     /\ s[2].filters.none = (s[2].filters.conds = {})
                     /\ (~s[2].raised /\ s[2].matches # <<>>) =>
                           (Len(s) = 2 /\ r.strategy = "relaxed_budget")
               /\ (goes_on /\ ~HasTuition(s[1].filters)) =>
                     /\ Len(s) = 2
                     /\ s[2].filters.none
                     /\ ~r.raised => r.strategy = "semantic_only"
               /\ r.strategy = "relaxed_budget" => HasTuition(s[1].filters)]_vars

\* A retrieval that ended at the relaxed tier: the first search had the four
\* constraints, the second had the other three.
C21_Witness ==
    \E c \in Calls :
       /\ calls[c].pc = "retrieved"
       /\ calls[c].strategy = "relaxed_budget"
       /\ Len(calls[c].searches) = 2
       /\ {f.key : f \in calls[c].searches[1].filters.conds} =
             {"min_gpa", "tuition_fee_mad", "location", "language"}
       /\ {f.key : f \in calls[c].searches[2].filters.conds} =
             {"min_gpa", "location", "language"}

(* ---------------------------------------------------------------------- *)
(* C22: chunks of stream_recommendation                                   *)
(* ---------------------------------------------------------------------- *)
\* C22: every non-empty fragment read from the upstream stream is handed to
\* the caller as the next chunk, at once (nothing more is read until the
\* caller resumes the generator), and an empty fragment is not handed on;
\* when the stream completes, the ai_response of the saved row is the
\* concatenation of the chunks handed to the caller, in their order.
C22_ChunksInArrivalOrder ==
    [][/\ \A c \in Calls, f \in ExtractionFragments :
            StreamChunk(c, f) =>
               /\ f # <<>> => /\ calls'[c].yielded = Append(calls[c].yielded, f)
                              /\ calls'[c].pc = "yielded"
               /\ f = <<>> => calls'[c].yielded = calls[c].yielded
       /\ \A c \in Calls :
            calls[c].pc = "yielded" =>
               /\ calls'[c].upstream = calls[c].upstream
               /\ calls'[c].yielded = calls[c].yielded
       /\ \A c \in Calls :
            (StreamEnd(c) /\ recs' # recs) =>
               \E r \in recs' \ recs :
                  /\ recs' = recs \cup {r}
                  /\ r.ai_response = Join(calls[c].yielded)]_vars

\* A completed stream of two chunks: the saved text is the first chunk
\* followed by the second.
C22_Witness ==
    /\ last = "ok"
    /\ \E r \in recs :
          /\ r.ai_response = <<"FJ", "J">> \o <<"F">>
          /\ r.structured_data.parsed

(* ---------------------------------------------------------------------- *)
(* C23: a recommendation is a snapshot                                    *)
(* ---------------------------------------------------------------------- *)
Snapshot(r) ==
    <<r.profile_id, r.session_id, r.query, r.retrieved_context, r.ai_response,
      r.structured_data>>

Feedback(r) == <<r.feedback_rating, r.feedback_comment>>

Stored(rid) == \E r \in recs : r.id = rid

\* C23: no step changes the profile_id, session_id, query, retrieved_context,
\* ai_response or structured_data of a recommendation that stays in the
\* store; the feedback fields change only in a submit_feedback addressed to
\* that recommendation, which sets them to what was sent and touches no
\* other row; submit_feedback for an id that is not stored fails and
\* changes nothing.
C23_RecommendationIsSnapshot ==
    [][/\ \A r \in recs, r2 \in recs' :
            r2.id = r.id => Snapshot(r2) = Snapshot(r)
       /\ \A u \in Users, rid \in RecIds, rating \in FeedbackRatings,
             comment \in FeedbackComments :
            submit_feedback(u, rid, rating, comment) =>
               /\ {r.id : r \in recs'} = {r.id : r \in recs}
               /\ \A r \in recs' : r.id # rid => r \in recs
               /\ (last' = "ok") =>
                     \E r \in recs' : r.id = rid /\ Feedback(r) = <<rating, comment>>
               /\ ~Stored(rid) => (last' # "ok" /\ UNCHANGED store)
       /\ (\E r \in recs, r2 \in recs' : r2.id = r.id /\ Feedback(r2) # Feedback(r)) =>
            \E u \in Users, rid \in RecIds, rating \in FeedbackRatings,
               comment \in FeedbackComments : submit_feedback(u, rid, rating, comment)]_vars

\* Two recommendations of a session whose profile has since been changed:
\* one carries feedback, both still name the profile they were made for.
C23_Witness ==
    /\ last = "ok"
    /\ \E r1, r2 \in recs, s \in sessions :
          /\ r1.id # r2.id
          /\ r1.session_id = s.id
          /\ r2.session_id = s.id
          /\ s.profile_id # r1.profile_id
          /\ r1.feedback_rating = 5
          /\ r1.feedback_comment = "c"
          /\ r2.feedback_rating = None

(* ---------------------------------------------------------------------- *)
(* C24: the message history of a session only grows                       *)
(* ---------------------------------------------------------------------- *)
IsPrefix(a, b) == Len(a) <= Len(b) /\ SubSeq(b, 1, Len(a)) = a

\* C24: in every step that keeps a session, the session's messages before
\* the step are a prefix of its messages after it, and a step that appends
\* a message leaves the session's last_message_at at the instant of the
\* step.
C24_HistoryAppendOnly ==
    [][\A sid \in SessionIds :
          (SessionExists(sid) /\ \E s \in sessions' : s.id = sid) =>
             /\ IsPrefix(messages[sid], messages'[sid])
             /\ messages'[sid] # messages[sid] =>
                   \A s \in sessions' : s.id = sid => s.last_message_at = now']_vars

\* A user message and, at a later instant, the assistant's reply.
C24_Witness ==
    \E s \in sessions :
       /\ Len(messages[s.id]) = 2
       /\ messages[s.id][1].role = "user"
       /\ messages[s.id][2].role = "assistant"
       /\ s.last_message_at = now
       /\ now > s.created_at

(* ---------------------------------------------------------------------- *)
(* C25: the parser has two outcomes                                       *)
(* ---------------------------------------------------------------------- *)
\* The first tagged fence of a text, the fence that ends its block (0 when
\* there is none) and what stands between them.
FirstTagged(text) == FindFrom(text, {"FJ"}, 1)

FirstClose(text) == FindFrom(text, {"F", "FJ"}, FirstTagged(text) + 1)

FirstBlock(text) == SubSeq(text, FirstTagged(text) + 1, FirstClose(text) - 1)

HoldsContainer(text) ==
    FirstTagged(text) # 0 /\ FirstClose(text) # 0 /\ FirstBlock(text) = <<"J">>

\* C25: the structured data saved for a completion is the container of the
\* first tagged block when that block is closed and holds a well-formed
\* container, and the empty value for every other text.
C25_ParserTwoOutcomes ==
    \A r \in recs :
       r.structured_data =
          IF HoldsContainer(r.ai_response)
            THEN [parsed |-> TRUE, body |-> <<"J">>]
          ELSE EmptyDict

(* ---------------------------------------------------------------------- *)
(* C26: the profile handed to the retrieval                               *)
(* ---------------------------------------------------------------------- *)
\* C26: whichever tier the retrieval ends in, and also when a search call
\* raises, the profile object the caller holds afterwards is the profile
\* as it was loaded, budget_range_max included.
C26_ProfileUnchangedByRetrieval ==
    [][\A c \in Calls, outs \in AllSearchAnswers :
          (Retrieve(c, outs) /\ ProfileExists(calls[c].profile_id)) =>
             /\ calls'[c].profile = ProfileRow(calls[c].profile_id)
             /\ calls'[c].profile.budget_range_max =
                   ProfileRow(calls[c].profile_id).budget_range_max]_vars

(* ---------------------------------------------------------------------- *)
(* C27: a failed exchange leaves no message                               *)
(* ---------------------------------------------------------------------- *)
\* C27: a send_message that fails leaves the messages of the session as
\* they were, and one that succeeds adds a user message and the assistant's
\* reply: no user message stays without its reply.
C27_FailedExchangeLeavesNoMessage ==
    [][\A u \in Users, sid \in SessionIds, m \in MessageContents :
          send_message(u, sid, m) =>
             IF last' = "ok"
               THEN /\ Len(messages'[sid]) = Len(messages[sid]) + 2
                    /\ messages'[sid][Len(messages[sid]) + 1].role = "user"
                    /\ messages'[sid][Len(messages[sid]) + 2].role = "assistant"
             ELSE messages' = messages]_vars

C29_AssistantSavedOnlyOnSuccess ==
    [][\A c \in Calls :
          ChatEnd(c) =>
             IF calls[c].raised
               THEN messages' = messages
             ELSE messages' # messages =>
                    /\ Len(messages'[calls[c].session_id])
                          = Len(messages[calls[c].session_id]) + 1
                    /\ messages'[calls[c].session_id][Len(messages'[calls[c].session_id])]
                          = [role |-> "assistant", content |-> calls[c].full_response,
                             message_metadata |-> NoMetadata]]_vars

(* ---------------------------------------------------------------------- *)
(* C30: references under deletion                                         *)
(* ---------------------------------------------------------------------- *)
InFlightWrite(c) == calls[c].pc \in {"complete", "stream"}

\* C30: every recommendation refers to a profile and a session that exist,
\* every message to a session that exists; and the write of a generation
\* whose profile or session has been deleted since the call began fails
\* with IntegrityError and adds no row.
C30_ReferencesSurviveDeletion ==
    /\ [](\A r \in recs : ProfileExists(r.profile_id) /\ SessionExists(r.session_id))
    /\ [](\A sid \in SessionIds : messages[sid] # <<>> => SessionExists(sid))
    /\ [][\A c \in Calls :
            (/\ InFlightWrite(c)
             /\ ~(ProfileExists(calls[c].profile_id) /\ SessionExists(calls[c].session_id))
             /\ calls'[c].pc = "idle"
             /\ last' \notin {"RuntimeError", "cancelled"}) =>
               (last' = "IntegrityError" /\ UNCHANGED store)]_vars

\* The write of a call was refused after its session had been deleted,
\* while the profile is still there.
C30_Witness ==
    /\ last = "IntegrityError"
    /\ NoCallInFlight
    /\ profiles # {}
    /\ sessions = {}
    /\ nextSessionId > 1
    /\ recs = {}

====
